---- MODULE Spec2Model ----
(***************************************************************************)
(* CloudVault: chunked, encrypted object storage over a messaging backend. *)
(*                                                                         *)
(* The module models                                                       *)
(*   - the client upload manager  (lib/upload-manager, src/unnamed/part_007)*)
(*   - the client download manager (src/components/demo-modal.tsx, 274-830)*)
(*   - the server transport TelegramStorage.fetchWithRetry and the chunk   *)
(*     upload path through it      (src/unnamed/part_012, 289-631)         *)
(* as state machines.  A React state update (setUploads / setDownloads) is *)
(* applied when it is called; an async function is a run whose program     *)
(* counter stops at each await.                                            *)
(***************************************************************************)
EXTENDS Naturals, Integers, FiniteSets, Sequences, Bags, TLC

(***************************************************************************)
(* Program constants                                                       *)
(***************************************************************************)
CHUNK_SIZE == 5 * 1024 * 1024
MAX_CONCURRENT_UPLOADS == 3
RETRY_ATTEMPTS == 3
MAX_CONCURRENT_DOWNLOADS == 3
DOWNLOAD_RETRY_ATTEMPTS == 3

(***************************************************************************)
(* Bounds of the exploration                                               *)
(***************************************************************************)
\* largest file of a single-file session, in chunks
MaxChunks == 3
\* requests the servers fail during a single-file session
MaxFaults == 3
\* files of the session that fills the pool, one chunk each
PoolFiles == 4
\* requests the servers fail during the session that fills the pool
PoolFaults == 0
\* CHUNK_SIZE in the storage model, in bytes
ChunkBytes == 2
\* longest buffer handed to uploadFile, in bytes
MaxBytes == 6
\* block size of the cipher, in bytes
BlockBytes == 1
\* number of values a byte takes: a byte holds every pad length 1..BlockBytes
ByteValues == BlockBytes + 1
\* number of values a digest takes
DigestValues == 9
\* process.env.NEXTAUTH_SECRET
Secret == 1
\* number of values crypto.randomUUID() takes
MaxFileId == 2
\* records the queue of the debounce model holds
MaxQueued == 4
\* step of the clock of the debounce model, in milliseconds
TickMs == 50
\* end of the clock of the debounce model, in milliseconds
MaxTime == 400
\* calls of a burst that are counted
MaxCalls == 3
\* chunks of the largest file sent to the chunk route
RouteChunks == 3
\* requests the servers fail during a session that begins near the retry ceiling
RetryFaults == 2
\* folders and files the tables hold at most, largest file size, mutations of a session
MaxFolders == 3
MaxStoredFiles == 3
MaxStoredSize == 2
MaxTableOps == 5

UploadIds == 1..PoolFiles

DownloadIds == 1..PoolFiles

VARIABLES
    manager,          \* which provider this behaviour exercises
    uploads,          \* useState<UploadFile[]>: id -> record (status "absent" = not in the array)
    activeUploads,    \* activeUploadsRef.current
    uploadRuns,       \* bag of processUpload invocations that have not returned
    uploadTimer,      \* processQueueTimeoutRef holds an armed 100ms timer
    nextUpload,       \* number of ids generated so far
    createRequests,   \* id -> the telegramChunks of the last POST /api/files/create
    downloads,        \* useState<DownloadFile[]>: id -> record
    activeDownloads,  \* activeDownloadsRef.current
    downloadRuns,     \* bag of processDownload invocations that have not returned
    downloadTimer,    \* the download manager's processQueueTimeoutRef holds an armed timer
    nextDownload,     \* number of download ids generated so far
    files,            \* the files the user has still to hand to addUploads
    faults,           \* requests the servers may still fail
    op,               \* transport: the operation that calls fetchWithRetry
    backend,          \* transport: the outcomes the backend may answer an attempt with
    signal,           \* transport: the external AbortSignal handed to fetchWithRetry
    fetchCall,        \* transport: the activation of fetchWithRetry
    requests,         \* transport: requests that reached the backend so far
    sleeps,           \* transport: backoff sleeps started so far
    client,           \* transport: the client's uploadChunk around the chunk route
    transfer,         \* transport: outcome of the operation / status of the transfer
    delay,            \* transport: the wait last handed to this.sleep and what it was computed from
    storage,          \* storage: one uploadFile call and the downloadFileByChunks call on its result
    debounce,         \* debounce: the queue's debounce timer on a clock, with the passes it ran
    tables,           \* folders: the files and folders tables with the cached folder totals
    route             \* chunk route: one POST /api/telegram/upload/chunk and its answer

upVars == <<uploads, activeUploads, uploadRuns, uploadTimer, nextUpload, createRequests>>

downVars == <<downloads, activeDownloads, downloadRuns, downloadTimer, nextDownload>>

transportVars == <<op, backend, signal, fetchCall, requests, sleeps, client, transfer, delay>>

vars == <<manager, files, faults, upVars, downVars, transportVars, storage, debounce, tables, route>>

(***************************************************************************)
(* Upload records                                                          *)
(***************************************************************************)
Ceil(a, b) == (a + b - 1) \div b

\* Math.ceil(file.size / CHUNK_SIZE)
TotalChunks(size) == Ceil(size, CHUNK_SIZE)

FileSizes == {(k - 1) * CHUNK_SIZE + 1 : k \in 1..MaxChunks}

AbsentUpload ==
    [status |-> "absent", size |-> 0, isImage |-> FALSE, currentChunk |-> 0,
     chunks |-> {}, retryCount |-> 0, aborted |-> FALSE, error |-> "none"]

\* the UploadFile literal of addUploads
NewUpload(size, img) ==
    [status |-> "pending", size |-> size, isImage |-> img, currentChunk |-> 0,
     chunks |-> {}, retryCount |-> 0, aborted |-> FALSE, error |-> "none"]

Present(ups) == {id \in DOMAIN ups : ups[id].status # "absent"}

PendingCount(ups) == Cardinality({id \in DOMAIN ups : ups[id].status = "pending"})

canStartUploadOff(active) == Cardinality(active) <= MAX_CONCURRENT_UPLOADS

canStartUpload(active) == Cardinality(active) < MAX_CONCURRENT_UPLOADS


(***************************************************************************)
(* processUpload runs.  A run keeps what its closure captured when it      *)
(* started: the UploadFile object `upload` (currentChunk, retryCount, the  *)
(* AbortController) and the `uploads` array of the render it was created   *)
(* in (closureStatus: its own record there; hasPending: another record was *)
(* pending there).                                                         *)
(*   pc = "image"  awaiting fetch(/api/telegram/image-upload)              *)
(*   pc = "fetch"  awaiting fetch(/api/telegram/upload/chunk) for chunk i, *)
(*                 client attempt n                                        *)
(*   pc = "sleep"  awaiting the unabortable RETRY_DELAY*(n+1) timer        *)
(*   pc = "create" awaiting createFileRecord                               *)
(***************************************************************************)
NewRun(ups, closure, id) ==
    [id |-> id,
     pc |-> IF ups[id].isImage THEN "image" ELSE "fetch",
     i |-> ups[id].currentChunk,
     from |-> ups[id].currentChunk,
     n |-> 0,
     total |-> TotalChunks(ups[id].size),
     aborted |-> ups[id].aborted,
     own |-> TRUE,
     retryCount |-> ups[id].retryCount,
     closureStatus |-> closure[id].status,
     hasPending |-> \E o \in DOMAIN closure : o # id /\ closure[o].status = "pending"]

RunsOf(runs) == BagToSet(runs)

Without(runs, run) == runs (-) SetToBag({run})

With(runs, run) == runs (+) SetToBag({run})

\* the state a handler works on: u uploads, a active ids, r runs, t debounce
\* timer armed, c create requests
Bundle(u, a, r, t, c) == [u |-> u, a |-> a, r |-> r, t |-> t, c |-> c]

\* new AbortController() stored on the record: the runs keep the old one
DetachRuns(runs, id) ==
    LET f(run) == IF run.id = id THEN [run EXCEPT !.own = FALSE] ELSE run
    IN  BagOfAll(f, runs)

\* /abort|cancel/i.test(error.message) or an AbortError
IsAbortedError(kind) == kind \in {"abort", "abortword"}

IsPermanentErrorNever(kind) == FALSE

\* errorMessage.includes("401") || ... || includes("too large")
IsPermanentError(kind) == kind = "permanent"

\* catch and finally of processUpload, for a run that has left the bag
CatchUpload(S, run, kind) ==
    LET id == run.id
        here == S.u[id].status # "absent"
        u1 == IF ~here THEN S.u
              ELSE IF IsAbortedError(kind)
              THEN IF run.closureStatus # "cancelled"
                   THEN [S.u EXCEPT ![id].status = "paused"]
                   ELSE S.u
              ELSE [S.u EXCEPT ![id].status = "error",
                               ![id].error = IF IsPermanentError(kind) THEN "manual" ELSE "retry",
                               ![id].retryCount = run.retryCount + 1]
    IN  Bundle(u1, S.a \ {id}, S.r, S.t \/ run.hasPending, S.c)

\* the finally of processUpload after a run that did not throw
FinallyUpload(S, run) ==
    Bundle(S.u, S.a \ {run.id}, S.r, S.t \/ run.hasPending, S.c)

\* AbortController.abort() of the controller the record holds now.  A run
\* that captured it and awaits a fetch made with its signal is rejected with
\* AbortError and unwinds (catch, finally) as soon as the aborting handler
\* has returned; a run awaiting the retry timer or createFileRecord, which
\* take no signal, only finds signal.aborted set when it wakes.
RECURSIVE AbortRuns(_, _)
AbortRuns(S, id) ==
    LET hit == {run \in RunsOf(S.r) : run.id = id /\ run.own /\ ~run.aborted}
    IN  IF hit = {} THEN S
        ELSE LET run == CHOOSE x \in hit : TRUE
                 rest == [x \in RunsOf(S.r) \ {run} |-> S.r[x]]
             IN  IF run.pc \in {"fetch", "image"}
                 THEN AbortRuns(CatchUpload([S EXCEPT !.r = rest], run, "abort"), id)
                 ELSE AbortRuns([S EXCEPT !.r = rest (+) [x \in {[run EXCEPT !.aborted = TRUE]} |-> S.r[run]]], id)

\* the chunk loop from the top of iteration run.i up to the next await
ContinueUpload(S, run) ==
    LET id == run.id
    IN  IF run.i < run.total
        THEN IF run.aborted
             THEN CatchUpload(S, run, "abort")
             ELSE Bundle(S.u, S.a, With(S.r, [run EXCEPT !.pc = "fetch", !.n = 0]), S.t, S.c)
        ELSE Bundle(IF S.u[id].status = "absent" THEN S.u
                    ELSE [S.u EXCEPT ![id].status = "completed"],
                    S.a,
                    With(S.r, [run EXCEPT !.pc = "create"]),
                    S.t,
                    [S.c EXCEPT ![id] = [made |-> TRUE, chunks |-> run.from .. (run.total - 1)]])

\* processUpload from its call to its first await
StartUpload(S, closure, id) ==
    LET run == NewRun(S.u, closure, id)
        u1 == [S.u EXCEPT ![id].status = "uploading", ![id].error = "none"]
        S1 == Bundle(u1, S.a \cup {id}, S.r, S.t, S.c)
    IN  IF run.pc = "image"
        THEN IF run.aborted
             THEN CatchUpload(S1, run, "abort")
             ELSE Bundle(S1.u, S1.a, With(S1.r, run), S1.t, S1.c)
        ELSE ContinueUpload(S1, run)


(***************************************************************************)
(* The render that follows a state update: the effect on pendingCount      *)
(* clears the debounce timer when pendingCount changed and arms it again   *)
(* when the new count is positive.                                         *)
(***************************************************************************)
PendingEffect(old, new, armed) ==
    IF PendingCount(new) # PendingCount(old) THEN PendingCount(new) > 0 ELSE armed

CommitUpload(S) ==
    /\ uploads' = S.u
    /\ activeUploads' = S.a
    /\ uploadRuns' = S.r
    /\ uploadTimer' = PendingEffect(uploads, S.u, S.t)
    /\ createRequests' = S.c

UploadNow == Bundle(uploads, activeUploads, uploadRuns, uploadTimer, createRequests)

UploadLess(run) ==
    Bundle(uploads, activeUploads, Without(uploadRuns, run), uploadTimer, createRequests)

\* what a failed request can say: a transient failure, a message the manager
\* classifies as permanent, or a message containing "abort"/"cancel"
FailureKinds == {"transient", "permanent", "abortword"}

RECURSIVE AbortAll(_, _)
AbortAll(S, ids) ==
    IF ids = {} THEN S
    ELSE LET id == CHOOSE x \in ids : TRUE
         IN  AbortAll(AbortRuns(S, id), ids \ {id})

\* a server fails a request
Fault == faults > 0 /\ faults' = faults - 1

(***************************************************************************)
(* Public API of the upload manager                                        *)
(***************************************************************************)
RECURSIVE AddAll(_, _, _)
AddAll(ups, n, fs) ==
    IF fs = <<>> THEN ups
    ELSE AddAll([ups EXCEPT ![n + 1] = NewUpload(Head(fs).size, Head(fs).isImage)],
                n + 1, Tail(fs))

\* addUploads(files): one record per file, appended in one setUploads
addUploads(k) ==
    /\ manager = "upload"
    /\ k \in 1..Len(files)
    /\ nextUpload' = nextUpload + k
    /\ files' = SubSeq(files, k + 1, Len(files))
    /\ CommitUpload([UploadNow EXCEPT !.u = AddAll(uploads, nextUpload, SubSeq(files, 1, k))])
    /\ UNCHANGED <<manager, faults, downVars, transportVars, storage, debounce, tables, route>>

removeUpload(id) ==
    /\ manager = "upload"
    /\ uploads[id].status # "absent"
    /\ CommitUpload(AbortRuns([UploadNow EXCEPT !.u = [uploads EXCEPT ![id] = AbsentUpload],
                                                !.a = activeUploads \ {id}], id))
    /\ UNCHANGED <<manager, files, faults, nextUpload, downVars, transportVars, storage, debounce, tables, route>>

pauseUpload(id) ==
    /\ manager = "upload"
    /\ uploads[id].status = "uploading"
    /\ LET S == AbortRuns([UploadNow EXCEPT
                    !.u = [uploads EXCEPT ![id].status = "paused",
                                          ![id].aborted = FALSE],
                    !.a = activeUploads \ {id}], id)
       IN  CommitUpload([S EXCEPT !.r = DetachRuns(@, id)])
    /\ UNCHANGED <<manager, files, faults, nextUpload, downVars, transportVars, storage, debounce, tables, route>>

resumeUploadKeepsController(rec) ==
    [rec EXCEPT !.status = "pending", !.error = "none"]

resumeUploadRecord(rec) ==
    [rec EXCEPT !.status = "pending", !.error = "none", !.aborted = FALSE]

resumeUpload(id) ==
    /\ manager = "upload"
    /\ uploads[id].status = "paused"
    /\ CommitUpload([UploadNow EXCEPT
            !.u = [uploads EXCEPT ![id] = resumeUploadRecord(uploads[id])],
            !.r = DetachRuns(uploadRuns, id)])
    /\ UNCHANGED <<manager, files, faults, nextUpload, downVars, transportVars, storage, debounce, tables, route>>

cancelUpload(id) ==
    /\ manager = "upload"
    /\ uploads[id].status # "absent"
    /\ CommitUpload(AbortRuns([UploadNow EXCEPT
            !.u = [uploads EXCEPT ![id].status = "cancelled", ![id].aborted = TRUE],
            !.a = activeUploads \ {id}], id))
    /\ UNCHANGED <<manager, files, faults, nextUpload, downVars, transportVars, storage, debounce, tables, route>>

retryUpload(id) ==
    /\ manager = "upload"
    /\ uploads[id].status = "error"
    /\ uploads[id].retryCount < RETRY_ATTEMPTS * 2
    /\ CommitUpload([UploadNow EXCEPT
            !.u = [uploads EXCEPT ![id].status = "pending",
                                  ![id].error = "none",
                                  ![id].currentChunk = 0,
                                  ![id].aborted = FALSE],
            !.r = DetachRuns(uploadRuns, id)])
    /\ UNCHANGED <<manager, files, faults, nextUpload, downVars, transportVars, storage, debounce, tables, route>>

clearCompleted ==
    /\ manager = "upload"
    /\ \E id \in UploadIds : uploads[id].status \in {"completed", "cancelled", "error"}
    /\ CommitUpload([UploadNow EXCEPT
            !.u = [id \in UploadIds |->
                     IF uploads[id].status \in {"completed", "cancelled", "error"}
                     THEN AbsentUpload ELSE uploads[id]]])
    /\ UNCHANGED <<manager, files, faults, nextUpload, downVars, transportVars, storage, debounce, tables, route>>

clearAll ==
    /\ manager = "upload"
    /\ Present(uploads) # {}
    /\ CommitUpload(AbortAll([UploadNow EXCEPT !.u = [id \in UploadIds |-> AbsentUpload]],
                              Present(uploads)))
    /\ UNCHANGED <<manager, files, faults, nextUpload, downVars, transportVars, storage, debounce, tables, route>>


(***************************************************************************)
(* Queue processing                                                        *)
(***************************************************************************)
Min(S) == CHOOSE x \in S : \A y \in S : x <= y

\* for (const upload of pendingUploads) { if (canStartUpload()) processUpload(upload); else break; }
\* eager: the invocations whose setUploads(updater) ran synchronously, so that
\* currentUpload was assigned; in the others it is still undefined and
\* processUpload returns.
RECURSIVE StartBatch(_, _, _, _)
StartBatch(S, closure, ids, eager) ==
    IF ids = {} \/ ~canStartUpload(S.a) THEN S
    ELSE LET id == Min(ids)
         IN  IF id \in eager /\ S.u[id].status = "pending"
             THEN StartBatch(StartUpload(S, closure, id), closure, ids \ {id}, eager)
             ELSE StartBatch(S, closure, ids \ {id}, eager)

\* u.retryCount >= RETRY_ATTEMPTS * 2 in the filter of processQueue
OverRetryLimit(rec) == rec.retryCount >= RETRY_ATTEMPTS * 2

\* the 100ms debounce timer fires: processQueue, then the setTimeout(0)
\* callbacks it scheduled: first the "Maximum retry attempts exceeded"
\* updates, then the loop over pendingUploads.
processQueue ==
    /\ manager = "upload"
    /\ uploadTimer
    /\ LET batch == {id \in UploadIds : uploads[id].status = "pending" /\ ~OverRetryLimit(uploads[id])}
           marks == {id \in UploadIds : uploads[id].status = "pending" /\ OverRetryLimit(uploads[id])}
           marked == [id \in UploadIds |->
                        IF id \in marks
                        THEN [uploads[id] EXCEPT !.status = "error", !.error = "max"]
                        ELSE uploads[id]]
           S0 == [UploadNow EXCEPT !.u = marked, !.t = FALSE]
       IN  \E eager \in SUBSET batch :
               CommitUpload(StartBatch(S0, marked, batch, eager))
    /\ UNCHANGED <<manager, files, faults, nextUpload, downVars, transportVars, storage, debounce, tables, route>>

(***************************************************************************)
(* Steps of a processUpload run                                            *)
(***************************************************************************)
\* chunks[i] = chunk; updateUpload(currentChunk: i + 1, chunks: [...chunks])
chunkUploaded(run) ==
    /\ run.pc = "fetch" /\ ~run.aborted
    /\ LET id == run.id
            S == UploadLess(run)
            u1 == IF uploads[id].status = "absent" THEN uploads
                  ELSE [uploads EXCEPT ![id].currentChunk = run.i + 1,
                                       ![id].chunks = run.from .. run.i]
       IN  CommitUpload(ContinueUpload([S EXCEPT !.u = u1], [run EXCEPT !.i = run.i + 1]))
    /\ UNCHANGED <<manager, files, faults, nextUpload, downVars, transportVars, storage, debounce, tables, route>>

\* retryCount < RETRY_ATTEMPTS && !signal.aborted
uploadChunkRetries(n, aborted) == n < RETRY_ATTEMPTS /\ ~aborted

\* the response is not ok, or fetch rejected with a network error
chunkFailed(run, kind) ==
    /\ run.pc = "fetch" /\ ~run.aborted
    /\ IF uploadChunkRetries(run.n, run.aborted)
       THEN CommitUpload([UploadLess(run) EXCEPT !.r = With(@, [run EXCEPT !.pc = "sleep"])])
       ELSE CommitUpload(CatchUpload(UploadLess(run), run, kind))
    /\ Fault /\ UNCHANGED <<manager, files, nextUpload, downVars, transportVars, storage, debounce, tables, route>>

\* setTimeout(resolve, RETRY_DELAY * (retryCount + 1)) fires: uploadChunk(retryCount + 1)
retryDelayElapsed(run) ==
    /\ run.pc = "sleep"
    /\ IF run.aborted
       THEN CommitUpload(CatchUpload(UploadLess(run), run, "abort"))
       ELSE CommitUpload([UploadLess(run) EXCEPT
                !.r = With(@, [run EXCEPT !.pc = "fetch", !.n = run.n + 1])])
    /\ UNCHANGED <<manager, files, faults, nextUpload, downVars, transportVars, storage, debounce, tables, route>>

imageUploaded(run) ==
    /\ run.pc = "image" /\ ~run.aborted
    /\ LET id == run.id
            S == UploadLess(run)
            all == 0 .. (run.total - 1)
            u1 == IF uploads[id].status = "absent" THEN uploads
                  ELSE [uploads EXCEPT ![id].status = "completed", ![id].chunks = all]
       IN  CommitUpload([S EXCEPT !.u = u1,
                                  !.r = With(@, [run EXCEPT !.pc = "create"]),
                                  !.c = [@ EXCEPT ![id] = [made |-> TRUE, chunks |-> all]]])
    /\ UNCHANGED <<manager, files, faults, nextUpload, downVars, transportVars, storage, debounce, tables, route>>

imageFailed(run, kind) ==
    /\ run.pc = "image" /\ ~run.aborted
    /\ CommitUpload(CatchUpload(UploadLess(run), run, kind))
    /\ Fault /\ UNCHANGED <<manager, files, nextUpload, downVars, transportVars, storage, debounce, tables, route>>

fileRecordCreated(run) ==
    /\ run.pc = "create"
    /\ CommitUpload(FinallyUpload(UploadLess(run), run))
    /\ UNCHANGED <<manager, files, faults, nextUpload, downVars, transportVars, storage, debounce, tables, route>>

fileRecordFailed(run, kind) ==
    /\ run.pc = "create"
    /\ CommitUpload(CatchUpload(UploadLess(run), run, kind))
    /\ Fault /\ UNCHANGED <<manager, files, nextUpload, downVars, transportVars, storage, debounce, tables, route>>

UploadStep ==
    \E run \in RunsOf(uploadRuns) :
        \/ chunkUploaded(run)
        \/ \E kind \in FailureKinds : chunkFailed(run, kind)
        \/ retryDelayElapsed(run)
        \/ imageUploaded(run)
        \/ \E kind \in FailureKinds : imageFailed(run, kind)
        \/ fileRecordCreated(run)
        \/ \E kind \in FailureKinds : fileRecordFailed(run, kind)

UploadUser ==
    \/ \E k \in 1..PoolFiles : addUploads(k)
    \/ \E id \in UploadIds :
        \/ removeUpload(id)
        \/ pauseUpload(id)
        \/ resumeUpload(id)
        \/ cancelUpload(id)
        \/ retryUpload(id)
    \/ clearCompleted
    \/ clearAll

(***************************************************************************)
(* Download manager (DownloadManagerProvider)                              *)
(***************************************************************************)
AbsentDownload ==
    [status |-> "absent", totalChunks |-> 0, currentChunk |-> 0, retryCount |-> 0,
     aborted |-> FALSE, error |-> "none"]

\* the DownloadFile literal of addDownload: totalChunks is telegramChunks.length
NewDownload(size) ==
    [status |-> "pending", totalChunks |-> TotalChunks(size), currentChunk |-> 0,
     retryCount |-> 0, aborted |-> FALSE, error |-> "none"]

canStartDownload(active) == Cardinality(active) < MAX_CONCURRENT_DOWNLOADS

\* a processDownload run awaits the fetch of chunks[i] in downloadFileChunks
NewDownloadRun(downs, closure, id) ==
    [id |-> id,
     i |-> 0,
     total |-> downs[id].totalChunks,
     retryCount |-> downs[id].retryCount,
     closureStatus |-> closure[id].status,
     hasPending |-> \E o \in DOMAIN closure : o # id /\ closure[o].status = "pending"]

DBundle(u, a, r, t) == [u |-> u, a |-> a, r |-> r, t |-> t]

\* errorMessage.includes('401') || ... || includes('Unauthorized')
IsPermanentDownloadError(kind) == kind = "permanent"

\* catch and finally of processDownload, for a run that has left the bag
CatchDownload(S, run, kind) ==
    LET id == run.id
        here == S.u[id].status # "absent"
        u1 == IF ~here THEN S.u
              ELSE IF IsAbortedError(kind)
              THEN IF run.closureStatus # "cancelled"
                   THEN [S.u EXCEPT ![id].status = "paused"]
                   ELSE S.u
              ELSE [S.u EXCEPT ![id].status = "error",
                               ![id].error = IF IsPermanentDownloadError(kind) THEN "manual" ELSE "plain",
                               ![id].retryCount = run.retryCount + 1]
    IN  DBundle(u1, S.a \ {id}, S.r, S.t \/ run.hasPending)

\* downloadFileChunks from the top of iteration run.i up to the next await;
\* after the loop, the completed update and the finally of processDownload
ContinueDownload(S, run, aborted) ==
    LET id == run.id
    IN  IF run.i < run.total
        THEN IF aborted
             THEN CatchDownload(S, run, "abort")
             ELSE DBundle(S.u, S.a, With(S.r, run), S.t)
        ELSE DBundle(IF S.u[id].status = "absent" THEN S.u
                     ELSE [S.u EXCEPT ![id].status = "completed",
                                      ![id].currentChunk = run.total],
                     S.a \ {id}, S.r, S.t \/ run.hasPending)

\* processDownload from its call to its first await
StartDownload(S, closure, id) ==
    LET run == NewDownloadRun(S.u, closure, id)
        u1 == [S.u EXCEPT ![id].status = "downloading", ![id].error = "none",
                          ![id].currentChunk = 0]
    IN  ContinueDownload(DBundle(u1, S.a \cup {id}, S.r, S.t), run, S.u[id].aborted)

\* abort() of the record's controller: the run awaiting a fetch made with
\* its signal is rejected and unwinds once the aborting handler has returned
RECURSIVE AbortDownloadRuns(_, _)
AbortDownloadRuns(S, id) ==
    LET hit == {run \in RunsOf(S.r) : run.id = id}
    IN  IF hit = {} THEN S
        ELSE LET run == CHOOSE x \in hit : TRUE
                 rest == [x \in RunsOf(S.r) \ {run} |-> S.r[x]]
             IN  AbortDownloadRuns(CatchDownload([S EXCEPT !.r = rest], run, "abort"), id)

RECURSIVE AbortAllDownloads(_, _)
AbortAllDownloads(S, ids) ==
    IF ids = {} THEN S
    ELSE LET id == CHOOSE x \in ids : TRUE
         IN  AbortAllDownloads(AbortDownloadRuns(S, id), ids \ {id})

CommitDownload(S) ==
    /\ downloads' = S.u
    /\ activeDownloads' = S.a
    /\ downloadRuns' = S.r
    /\ downloadTimer' = PendingEffect(downloads, S.u, S.t)

DownloadNow == DBundle(downloads, activeDownloads, downloadRuns, downloadTimer)

DownloadLess(run) ==
    DBundle(downloads, activeDownloads, Without(downloadRuns, run), downloadTimer)

addDownload ==
    /\ manager = "download"
    /\ files # <<>>
    /\ nextDownload' = nextDownload + 1
    /\ files' = Tail(files)
    /\ CommitDownload([DownloadNow EXCEPT
            !.u = [downloads EXCEPT ![nextDownload + 1] = NewDownload(Head(files).size)]])
    /\ UNCHANGED <<manager, faults, upVars, transportVars, storage, debounce, tables, route>>

removeDownload(id) ==
    /\ manager = "download"
    /\ downloads[id].status # "absent"
    /\ CommitDownload(AbortDownloadRuns([DownloadNow EXCEPT
            !.u = [downloads EXCEPT ![id] = AbsentDownload],
            !.a = activeDownloads \ {id}], id))
    /\ UNCHANGED <<manager, files, faults, nextDownload, upVars, transportVars, storage, debounce, tables, route>>

pauseDownload(id) ==
    /\ manager = "download"
    /\ downloads[id].status = "downloading"
    /\ CommitDownload(AbortDownloadRuns([DownloadNow EXCEPT
            !.u = [downloads EXCEPT ![id].status = "paused", ![id].aborted = FALSE],
            !.a = activeDownloads \ {id}], id))
    /\ UNCHANGED <<manager, files, faults, nextDownload, upVars, transportVars, storage, debounce, tables, route>>

resumeDownload(id) ==
    /\ manager = "download"
    /\ downloads[id].status = "paused"
    /\ CommitDownload([DownloadNow EXCEPT
            !.u = [downloads EXCEPT ![id].status = "pending", ![id].error = "none",
                                    ![id].aborted = FALSE]])
    /\ UNCHANGED <<manager, files, faults, nextDownload, upVars, transportVars, storage, debounce, tables, route>>

cancelDownload(id) ==
    /\ manager = "download"
    /\ downloads[id].status # "absent"
    /\ CommitDownload(AbortDownloadRuns([DownloadNow EXCEPT
            !.u = [downloads EXCEPT ![id].status = "cancelled", ![id].aborted = TRUE],
            !.a = activeDownloads \ {id}], id))
    /\ UNCHANGED <<manager, files, faults, nextDownload, upVars, transportVars, storage, debounce, tables, route>>

retryDownload(id) ==
    /\ manager = "download"
    /\ downloads[id].status = "error"
    /\ downloads[id].retryCount < DOWNLOAD_RETRY_ATTEMPTS * 2
    /\ CommitDownload([DownloadNow EXCEPT
            !.u = [downloads EXCEPT ![id].status = "pending", ![id].error = "none",
                                    ![id].aborted = FALSE]])
    /\ UNCHANGED <<manager, files, faults, nextDownload, upVars, transportVars, storage, debounce, tables, route>>

clearCompletedDownloads ==
    /\ manager = "download"
    /\ \E id \in DownloadIds : downloads[id].status \in {"completed", "cancelled", "error"}
    /\ CommitDownload([DownloadNow EXCEPT
            !.u = [id \in DownloadIds |->
                     IF downloads[id].status \in {"completed", "cancelled", "error"}
                     THEN AbsentDownload ELSE downloads[id]]])
    /\ UNCHANGED <<manager, files, faults, nextDownload, upVars, transportVars, storage, debounce, tables, route>>

clearAllDownloads ==
    /\ manager = "download"
    /\ Present(downloads) # {}
    /\ CommitDownload(AbortAllDownloads(
            [DownloadNow EXCEPT !.u = [id \in DownloadIds |-> AbsentDownload]],
            Present(downloads)))
    /\ UNCHANGED <<manager, files, faults, nextDownload, upVars, transportVars, storage, debounce, tables, route>>

\* for (const download of pendingDownloads) { if (canStartDownload()) processDownloadRef.current?.(download); else break; }
RECURSIVE StartDownloadBatch(_, _, _)
StartDownloadBatch(S, closure, ids) ==
    IF ids = {} \/ ~canStartDownload(S.a) THEN S
    ELSE LET id == Min(ids)
         IN  IF closure[id].status = "pending"
             THEN StartDownloadBatch(StartDownload(S, closure, id), closure, ids \ {id})
             ELSE StartDownloadBatch(S, closure, ids \ {id})

\* the download manager's debounce timer fires: processQueue and the
\* setTimeout(0) callbacks it scheduled
processDownloadQueue ==
    /\ manager = "download"
    /\ downloadTimer
    /\ LET over(id) == downloads[id].retryCount >= DOWNLOAD_RETRY_ATTEMPTS * 2
           batch == {id \in DownloadIds : downloads[id].status = "pending" /\ ~over(id)}
           marks == {id \in DownloadIds : downloads[id].status = "pending" /\ over(id)}
           marked == [id \in DownloadIds |->
                        IF id \in marks
                        THEN [downloads[id] EXCEPT !.status = "error", !.error = "max"]
                        ELSE downloads[id]]
       IN  CommitDownload(StartDownloadBatch(
               [DownloadNow EXCEPT !.u = marked, !.t = FALSE], downloads, batch))
    /\ UNCHANGED <<manager, files, faults, nextDownload, upVars, transportVars, storage, debounce, tables, route>>

\* downloadedChunks[i] = ...; onProgress -> updateDownload(currentChunk: i + 1)
chunkDownloaded(run) ==
    /\ LET id == run.id
           u1 == IF downloads[id].status = "absent" THEN downloads
                 ELSE [downloads EXCEPT ![id].currentChunk = run.i + 1]
       IN  CommitDownload(ContinueDownload([DownloadLess(run) EXCEPT !.u = u1],
                                           [run EXCEPT !.i = run.i + 1], FALSE))
    /\ UNCHANGED <<manager, files, faults, nextDownload, upVars, transportVars, storage, debounce, tables, route>>

\* the response is not ok, has no body, or fetch rejected with a network error
chunkDownloadFailed(run, kind) ==
    /\ CommitDownload(CatchDownload(DownloadLess(run), run, kind))
    /\ Fault /\ UNCHANGED <<manager, files, nextDownload, upVars, transportVars, storage, debounce, tables, route>>

DownloadStep ==
    \E run \in RunsOf(downloadRuns) :
        \/ chunkDownloaded(run)
        \/ \E kind \in FailureKinds : chunkDownloadFailed(run, kind)

DownloadUser ==
    \/ addDownload
    \/ \E id \in DownloadIds :
        \/ removeDownload(id)
        \/ pauseDownload(id)
        \/ resumeDownload(id)
        \/ cancelDownload(id)
        \/ retryDownload(id)
    \/ clearCompletedDownloads
    \/ clearAllDownloads

InitDownload ==
    /\ downloads = [id \in DownloadIds |-> AbsentDownload]
    /\ activeDownloads = {}
    /\ downloadRuns = EmptyBag
    /\ downloadTimer = FALSE
    /\ nextDownload = 0

InitUpload ==
    /\ uploads = [id \in UploadIds |-> AbsentUpload]
    /\ activeUploads = {}
    /\ uploadRuns = EmptyBag
    /\ uploadTimer = FALSE
    /\ nextUpload = 0
    /\ createRequests = [id \in UploadIds |-> [made |-> FALSE, chunks |-> {}]]

(***************************************************************************)
(* Transport: TelegramStorage.fetchWithRetry, its callers sendDocument,    *)
(* getFile and downloadFile, and the path of one chunk from the client's   *)
(* uploadChunk through the chunk route to the backend.                     *)
(***************************************************************************)
\* retryStatuses = [429, 500, 502, 503, 504], retries = 4
RetryStatusesWith404 == {404, 429, 500, 502, 503, 504}

RetryStatuses == {429, 500, 502, 503, 504}
Retries == 4

Status(code) == [kind |-> "status", status |-> code]
NetworkError == [kind |-> "network", status |-> 0]
Timeout == [kind |-> "timeout", status |-> 0]
\* a 200 whose body is not JSON or says ok: false
BadBody == [kind |-> "badbody", status |-> 200]
\* the attempt was rejected because the external signal was aborted
Aborted == [kind |-> "abort", status |-> 0]

StatusCodes == {200, 400, 401, 403, 404, 413, 429, 500, 502, 503, 504}

Outcomes == {Status(c) : c \in StatusCodes} \cup {NetworkError, Timeout, BadBody}

\* res.ok
Ok(o) == o.kind \in {"status", "badbody"} /\ o.status = 200

NoOutcome == [kind |-> "none", status |-> 0]

\* !retryStatuses.includes(res.status) || attempt === retries  =>  return res
ReturnsResponseNoBudget(o, attempt) == ~(o.status \in RetryStatuses)

ReturnsResponse(o, attempt) == ~(o.status \in RetryStatuses) \/ attempt = Retries

\* if (attempt === retries) throw err
ThrowsError(attempt) == attempt = Retries

\* one attempt of fetchWithRetry is answered
\*   pc = "fetch"    awaiting fetch(url, fetchOptions)
\*   pc = "sleep"    awaiting this.sleep(delay, externalSignal)
\*   pc = "returned" returned the response `last`
\*   pc = "thrown"   threw: error = "AbortError" | "NetworkError"
AfterAttempt(fc, o) ==
    IF o.kind \in {"status", "badbody"}
    THEN IF Ok(o) \/ ReturnsResponse(o, fc.attempt)
         THEN [fc EXCEPT !.pc = "returned", !.last = o]
         ELSE [fc EXCEPT !.pc = "sleep", !.last = o]
    ELSE IF ThrowsError(fc.attempt)
         THEN [fc EXCEPT !.pc = "thrown", !.last = o,
                         !.error = IF o.kind = "timeout" THEN "AbortError" ELSE "NetworkError"]
         ELSE [fc EXCEPT !.pc = "sleep", !.last = o]

\* fetchWithRetry is called: the first iteration up to its await.  With an
\* aborted external signal fetch rejects at once and no request is made.
NewCall(sig) ==
    IF sig.given /\ sig.aborted
    THEN [pc |-> "thrown", attempt |-> 0, last |-> Aborted, error |-> "AbortError"]
    ELSE [pc |-> "fetch", attempt |-> 0, last |-> NoOutcome, error |-> "none"]

IdleCall == [pc |-> "idle", attempt |-> 0, last |-> NoOutcome, error |-> "none"]

Finished(fc) == fc.pc \in {"returned", "thrown"}

\* what sendDocument / getFile / downloadFile make of the finished call:
\* "ok", or the kind of the error they throw
\*   sendDocument, getFile: !response.ok || result.ok === false, or JSON.parse fails
\*   downloadFile: !response.ok
CallerResult(o, fc) ==
    IF fc.pc = "thrown"
    THEN IF fc.error = "AbortError" THEN "abortword" ELSE "transient"
    ELSE IF fc.last.kind = "badbody"
         THEN IF o = "downloadFile" THEN "ok" ELSE "transient"
         ELSE IF Ok(fc.last) THEN "ok"
         ELSE IF fc.last.status = 401 THEN "permanent" ELSE "transient"

\* status the catch of processUpload leaves a record of the closure with
UploadCatchStatus(kind) == IF IsAbortedError(kind) THEN "paused" ELSE "error"

\* baseDelayMs = 1000
BaseDelayMs == 1000

RECURSIVE Pow2(_)
Pow2(k) == IF k = 0 THEN 1 ELSE 2 * Pow2(k - 1)

Max2(a, b) == IF a >= b THEN a ELSE b

Min2(a, b) == IF a <= b THEN a ELSE b

\* Math.floor(Math.random() * 250): the smallest and the largest value
Jitters == {0, 249}

\* the Retry-After header of a response, in seconds; -1: absent or not a number
RetryAfters == {-1, 2, 20}

\* the wait after a response with a retry status: sleep(Math.min(delay, 15000))
StatusDelay(attempt, jitter, retryAfter) ==
    LET computed == BaseDelayMs * Pow2(attempt) + jitter
    IN  Min2(IF retryAfter >= 0 THEN Max2(computed, retryAfter * 1000) ELSE computed, 15000)

\* the wait after a network error or timeout: sleep(Math.min(delay, 30000)),
\* at least 5000 for UND_ERR_CONNECT_TIMEOUT
ErrorDelay(attempt, jitter, connect) ==
    LET computed == BaseDelayMs * Pow2(attempt) + jitter
    IN  Min2(IF connect THEN Max2(computed, 5000) ELSE computed, 30000)

NoDelay == [ms |-> 0, jitter |-> 0, retryAfter |-> -1, connect |-> FALSE]

\* the delay fetchWithRetry sleeps after the attempt answered with o
Backoff(o, attempt, jitter, retryAfter, connect) ==
    IF o.kind \in {"status", "badbody"}
    THEN [ms |-> StatusDelay(attempt, jitter, retryAfter), jitter |-> jitter,
          retryAfter |-> retryAfter, connect |-> FALSE]
    ELSE [ms |-> ErrorDelay(attempt, jitter, connect /\ o.kind = "network"), jitter |-> jitter,
          retryAfter |-> -1, connect |-> connect /\ o.kind = "network"]

\* the backend answers the attempt in flight
respond(o) ==
    /\ fetchCall.pc = "fetch"
    /\ o \in backend
    /\ fetchCall' = AfterAttempt(fetchCall, o)
    /\ sleeps' = IF fetchCall'.pc = "sleep" THEN sleeps + 1 ELSE sleeps
    /\ \E jitter \in Jitters, retryAfter \in RetryAfters, connect \in BOOLEAN :
           delay' = IF fetchCall'.pc = "sleep"
                    THEN Backoff(o, fetchCall.attempt, jitter, retryAfter, connect)
                    ELSE delay
    /\ UNCHANGED <<op, backend, signal, requests, client, transfer>>

\* this.sleep resolves: the next iteration starts and issues its request
sleepElapsed ==
    /\ fetchCall.pc = "sleep"
    /\ fetchCall' = [fetchCall EXCEPT !.pc = "fetch", !.attempt = fetchCall.attempt + 1]
    /\ requests' = requests + 1
    /\ UNCHANGED <<op, backend, signal, sleeps, client, transfer, delay>>

\* the external signal is aborted: the attempt in flight is rejected through
\* onAbort -> controller.abort(), a pending sleep through its onAbort; the
\* catch finds externalSignal.aborted and rethrows
abortSignal ==
    /\ signal.given /\ ~signal.aborted
    /\ signal' = [signal EXCEPT !.aborted = TRUE]
    /\ fetchCall' = IF fetchCall.pc = "fetch"
                    THEN [fetchCall EXCEPT !.pc = "thrown", !.error = "AbortError",
                                           !.last = Aborted]
                    ELSE IF fetchCall.pc = "sleep"
                    THEN [fetchCall EXCEPT !.pc = "thrown", !.error = "AbortError"]
                    ELSE fetchCall
    /\ UNCHANGED <<op, backend, requests, sleeps, client, transfer, delay>>

\* sendDocument, getFile or downloadFile returns or throws to its caller
callerDone ==
    /\ op \in {"sendDocument", "getFile", "downloadFile"}
    /\ Finished(fetchCall)
    /\ transfer = "running"
    /\ transfer' = CallerResult(op, fetchCall)
    /\ UNCHANGED <<op, backend, signal, fetchCall, requests, sleeps, client, delay>>

\* the chunk route answers the client's POST: 200 {success, chunk}, or 500
\* {error: message}.  The client's uploadChunk returns, retries after
\* RETRY_DELAY * (retryCount + 1), or throws into the catch of processUpload.
routeResponds ==
    /\ op = "chunk"
    /\ Finished(fetchCall)
    /\ LET kind == CallerResult("sendDocument", fetchCall)
       IN  IF client.pc # "post"
           THEN UNCHANGED <<client, transfer>>
           ELSE IF kind = "ok"
           THEN /\ client' = [client EXCEPT !.pc = "done"]
                /\ transfer' = "completed"
           ELSE IF uploadChunkRetries(client.n, client.aborted)
           THEN /\ client' = [client EXCEPT !.pc = "sleep"]
                /\ transfer' = transfer
           ELSE /\ client' = [client EXCEPT !.pc = "done"]
                /\ transfer' = UploadCatchStatus(kind)
    /\ fetchCall' = IdleCall
    /\ UNCHANGED <<op, backend, signal, requests, sleeps, delay>>

\* the client's retry timer fires: uploadChunk(upload, chunkIndex, chunkBlob, retryCount + 1)
\* posts the chunk again and the route calls telegramStorage.uploadChunk
\* With the client's signal aborted meanwhile the fetch rejects before it
\* is sent, nothing is retried and the error reaches processUpload.
clientRetries ==
    /\ op = "chunk"
    /\ client.pc = "sleep"
    /\ IF client.aborted
       THEN /\ client' = [client EXCEPT !.pc = "done", !.n = client.n + 1]
            /\ transfer' = UploadCatchStatus("abort")
            /\ UNCHANGED <<fetchCall, requests>>
       ELSE /\ client' = [client EXCEPT !.pc = "post", !.n = client.n + 1]
            /\ fetchCall' = NewCall(signal)
            /\ requests' = requests + 1
            /\ transfer' = transfer
    /\ UNCHANGED <<op, backend, signal, sleeps, delay>>

\* upload.abortController.abort() on the client: a POST in flight rejects
\* and processUpload's catch takes its abort branch; the retry delay is not
\* abortable.  The chunk route hands no signal on, so its call goes on.
clientAborts ==
    /\ op = "chunk"
    /\ ~client.aborted
    /\ client.pc \in {"post", "sleep"}
    /\ IF client.pc = "post"
       THEN /\ client' = [client EXCEPT !.pc = "done", !.aborted = TRUE]
            /\ transfer' = UploadCatchStatus("abort")
       ELSE /\ client' = [client EXCEPT !.aborted = TRUE]
            /\ transfer' = transfer
    /\ UNCHANGED <<op, backend, signal, fetchCall, requests, sleeps, delay>>

Ops == {"sendDocument", "getFile", "downloadFile", "chunk"}

\* what the backend does in a session: anything, or always the same answer
Backends == {Outcomes} \cup {{Status(c)} : c \in {503, 401, 404}}

\* only sendDocument forwards a signal (the upload route's request.signal);
\* the chunk route, getFile and downloadFile hand none to fetchWithRetry
InitTransport ==
    /\ op \in Ops
    /\ backend \in Backends
    /\ signal \in {[given |-> g, aborted |-> a] :
                       g \in {op = "sendDocument"}, a \in {FALSE, op = "sendDocument"}}
    /\ fetchCall = NewCall(signal)
    /\ requests = IF fetchCall.pc = "fetch" THEN 1 ELSE 0
    /\ sleeps = 0
    /\ client = [pc |-> IF op = "chunk" THEN "post" ELSE "none", n |-> 0, aborted |-> FALSE]
    /\ transfer = "running"
    /\ delay = NoDelay

IdleTransport ==
    /\ op = "none"
    /\ backend = {}
    /\ signal = [given |-> FALSE, aborted |-> FALSE]
    /\ fetchCall = IdleCall
    /\ requests = 0
    /\ sleeps = 0
    /\ client = [pc |-> "none", n |-> 0, aborted |-> FALSE]
    /\ transfer = "none"
    /\ delay = NoDelay

NextTransport ==
    \/ \E o \in Outcomes : respond(o) /\ UNCHANGED <<manager, files, faults, upVars, downVars, storage, debounce, tables, route>>
    \/ sleepElapsed /\ UNCHANGED <<manager, files, faults, upVars, downVars, storage, debounce, tables, route>>
    \/ abortSignal /\ UNCHANGED <<manager, files, faults, upVars, downVars, storage, debounce, tables, route>>
    \/ callerDone /\ UNCHANGED <<manager, files, faults, upVars, downVars, storage, debounce, tables, route>>
    \/ routeResponds /\ UNCHANGED <<manager, files, faults, upVars, downVars, storage, debounce, tables, route>>
    \/ clientRetries /\ UNCHANGED <<manager, files, faults, upVars, downVars, storage, debounce, tables, route>>
    \/ clientAborts /\ UNCHANGED <<manager, files, faults, upVars, downVars, storage, debounce, tables, route>>

(***************************************************************************)
(* Storage: TelegramStorage.uploadFile on one buffer, then                 *)
(* downloadFileByChunks on the chunks it returned.  Buffers are sequences  *)
(* of bytes 0..ByteValues-1.  The cipher keeps what aes-256-cbc with       *)
(* createCipher does to a buffer: key and iv are derived from the password *)
(* alone, the plaintext is padded to whole blocks with the pad length,     *)
(* every byte of the ciphertext depends on the key and on the ciphertext   *)
(* before it, and final() of the decipher rejects a bad padding.           *)
(***************************************************************************)
Bytes == 0..(ByteValues - 1)

Buffers == UNION {[1..n -> Bytes] : n \in 0..MaxBytes}

RECURSIVE Weigh(_, _)
Weigh(data, j) ==
    IF data = <<>> THEN 0 ELSE j * (Head(data) + 1) + Weigh(Tail(data), j + 2)

\* crypto.createHash('sha256').update(data).digest('hex')
sha256(data) == Weigh(data, 1) % DigestValues

\* sha256 of `${fileId}_${chunkIndex}_${process.env.NEXTAUTH_SECRET}`
generateEncryptionKey(fileId, chunkIndex) == sha256(<<fileId, chunkIndex, Secret>>)

RECURSIVE Cbc(_, _, _)
Cbc(plain, prev, k) ==
    IF plain = <<>> THEN <<>>
    ELSE LET c == (Head(plain) + prev + k) % ByteValues
         IN  <<c>> \o Cbc(Tail(plain), c, k)

RECURSIVE UnCbc(_, _, _)
UnCbc(data, prev, k) ==
    IF data = <<>> THEN <<>>
    ELSE <<(Head(data) + 2 * ByteValues - prev - k) % ByteValues>>
             \o UnCbc(Tail(data), Head(data), k)

Pad(chunk) ==
    LET p == BlockBytes - (Len(chunk) % BlockBytes)
    IN  chunk \o [j \in 1..p |-> p]

\* Buffer.concat([cipher.update(chunk), cipher.final()])
encryptChunk(chunk, key) == Cbc(Pad(chunk), key \div ByteValues, key % ByteValues)

decryptChunkKeepsPadding(encryptedChunk, key) ==
    [ok |-> TRUE, data |-> UnCbc(encryptedChunk, key \div ByteValues, key % ByteValues)]

\* Buffer.concat([decipher.update(encryptedChunk), decipher.final()]);
\* ok = FALSE when final() throws
decryptChunk(encryptedChunk, key) ==
    LET plain == UnCbc(encryptedChunk, key \div ByteValues, key % ByteValues)
        n == Len(plain)
        p == IF n = 0 THEN 0 ELSE plain[n]
        valid == /\ n > 0 /\ n % BlockBytes = 0 /\ p \in 1..BlockBytes
                 /\ \A j \in (n - p + 1)..n : plain[j] = p
    IN  [ok |-> valid, data |-> IF valid THEN SubSeq(plain, 1, n - p) ELSE <<>>]

ChunkCountRoundsDown(fileBuffer) ==
    IF Len(fileBuffer) <= ChunkBytes THEN 1 ELSE Len(fileBuffer) \div ChunkBytes

\* the number of uploadChunk calls uploadFile makes for a buffer
ChunkCount(fileBuffer) ==
    IF Len(fileBuffer) <= ChunkBytes THEN 1 ELSE Ceil(Len(fileBuffer), ChunkBytes)

\* the buffer handed to uploadChunk for chunkIndex i
ChunkOf(fileBuffer, i) ==
    IF Len(fileBuffer) <= ChunkBytes THEN fileBuffer
    ELSE LET start == i * ChunkBytes
             end == Min({start + ChunkBytes, Len(fileBuffer)})
         IN  SubSeq(fileBuffer, start + 1, end)

\* what the backend does with the document it mistreats
StorageBackends == {"faithful", "corrupts", "nodocument", "unavailable"}

\* the TelegramMessage sendDocument returns; file_id 0 stands for a message
\* without document
sendDocument(documents, kind) ==
    [message_id |-> Len(documents) + 1,
     file_id |-> IF kind = "nodocument" THEN 0 ELSE Len(documents) + 1]

\* getFile, then downloadFile of its file_path
downloadFile(documents, file_id, kind) ==
    IF kind = "corrupts"
    THEN [documents[file_id] EXCEPT ![1] = (@ + 1) % ByteValues]
    ELSE documents[file_id]

\* the TelegramChunk uploadChunk returns
uploadChunk(fileId, chunkIndex, chunk, message) ==
    [chunkId |-> <<fileId, chunkIndex>>,
     chunkIndex |-> chunkIndex,
     messageId |-> message.message_id,
     encryptedHash |-> sha256(encryptChunk(chunk, generateEncryptionKey(fileId, chunkIndex))),
     fileId |-> message.file_id]

\* chunks.sort((a, b) => a.chunkIndex - b.chunkIndex)
RECURSIVE InsertChunk(_, _)
InsertChunk(c, sorted) ==
    IF sorted = <<>> THEN <<c>>
    ELSE IF c.chunkIndex < Head(sorted).chunkIndex THEN <<c>> \o sorted
    ELSE <<Head(sorted)>> \o InsertChunk(c, Tail(sorted))

SortChunksOff(chunks) == chunks

RECURSIVE SortChunks(_)
SortChunks(chunks) ==
    IF chunks = <<>> THEN <<>>
    ELSE InsertChunk(chunks[Len(chunks)], SortChunks(SubSeq(chunks, 1, Len(chunks) - 1)))

\* the orders in which the caller of the download route may list the chunks
Orders(chunks) ==
    LET n == Len(chunks)
    IN  {[j \in 1..n |-> chunks[q[j]]] :
            q \in {f \in [1..n -> 1..n] : \A a, b \in 1..n : f[a] = f[b] => a = b}}

\* the descriptor arrays a request may carry: the descriptors of the upload
\* in any order, some of them left out or repeated
Lists(chunks) ==
    LET n == Len(chunks)
    IN  UNION {{[j \in 1..m |-> chunks[q[j]]] : q \in [1..m -> 1..n]} : m \in 0..n}

IdleStorage ==
    [pc |-> "idle", kind |-> "faithful", bad |-> 0, fileBuffer |-> <<>>, fileId |-> 0,
     i |-> 0, chunks |-> <<>>, documents |-> <<>>, sent |-> <<>>, keys |-> {},
     order |-> <<>>, fetched |-> <<>>, chunkBuffers |-> <<>>,
     error |-> "none", errorChunk |-> 0, wait |-> 0]

\* the backend mistreats the document with message id storage.bad
KindOf(message_id) == IF message_id = storage.bad THEN storage.kind ELSE "faithful"

\* uploadFile(fileBuffer) is called and has issued the request for chunk 0;
\* fileId is crypto.randomUUID()
InitStorage ==
    \E fileBuffer \in Buffers, fileId \in 1..MaxFileId, kind \in StorageBackends :
        \E bad \in IF kind = "faithful" THEN {0} ELSE 1..ChunkCount(fileBuffer) :
            storage = [IdleStorage EXCEPT !.pc = "send", !.kind = kind, !.bad = bad,
                                          !.fileBuffer = fileBuffer, !.fileId = fileId,
                                          !.sent = <<0>>]

\* Math.floor(Math.random() * 300): the smallest and the largest value
ChunkJitters == {0, 299}

InterChunkDelayFlat(i, jitter) == 800 + jitter

\* stepUp + jitter with stepUp = Math.min(2500, base + i * 50), base = 800
InterChunkDelay(i, jitter) == Min2(2500, 800 + i * 50) + jitter

\* sendDocument answers: uploadChunk returns and chunks.push(chunkInfo); in
\* the loop over several chunks the delay before the next chunk starts;
\* wait is the time of the pending this.sleep
chunkSent ==
    /\ storage.pc = "send"
    /\ \E jitter \in ChunkJitters :
       LET i == storage.i
           chunk == ChunkOf(storage.fileBuffer, i)
           key == generateEncryptionKey(storage.fileId, i)
           message == sendDocument(storage.documents, KindOf(Len(storage.documents) + 1))
       IN  storage' = [storage EXCEPT
               !.documents = Append(@, encryptChunk(chunk, key)),
               !.chunks = Append(@, uploadChunk(storage.fileId, i, chunk, message)),
               !.keys = @ \cup {[chunkIndex |-> i, key |-> key, by |-> "upload"]},
               !.wait = IF i < ChunkCount(storage.fileBuffer) - 1
                        THEN InterChunkDelay(i, jitter) ELSE 0,
               !.pc = IF i < ChunkCount(storage.fileBuffer) - 1 THEN "sleep" ELSE "uploaded"]

\* sendDocument throws: uploadFile rejects
chunkRejected ==
    /\ storage.pc = "send"
    /\ storage' = [storage EXCEPT !.pc = "failed", !.error = "upload"]

\* this.sleep(stepUp + jitter, signal) resolves: the next iteration calls uploadChunk
chunkDelayElapsed ==
    /\ storage.pc = "sleep"
    /\ storage' = [storage EXCEPT !.i = @ + 1, !.sent = Append(@, storage.i + 1), !.pc = "send",
                                  !.wait = 0]

\* options.signal aborts: the pending sendDocument or sleep rejects
\* (onAbort: clearTimeout(t), reject)
uploadAborted ==
    /\ storage.pc \in {"send", "sleep"}
    /\ storage' = [storage EXCEPT !.pc = "failed", !.error = "aborted", !.wait = 0]

\* the body of the loop of downloadFileByChunks for one descriptor: the
\* error it throws ("none" when it pushes data), whether the backend was
\* asked for the document, and the key it derived
fetchChunk(chunk) ==
    LET kind == KindOf(chunk.messageId)
        key == generateEncryptionKey(storage.fileId, chunk.chunkIndex)
    IN  IF chunk.fileId = 0
        THEN [error |-> "Missing file ID", asked |-> FALSE, keys |-> {}, data |-> <<>>]
        ELSE IF kind = "unavailable"
        THEN [error |-> "Failed to get file info", asked |-> TRUE, keys |-> {}, data |-> <<>>]
        ELSE LET encryptedChunk == downloadFile(storage.documents, chunk.fileId, kind)
                 decrypted == decryptChunk(encryptedChunk, key)
                 used == {[chunkIndex |-> chunk.chunkIndex, key |-> key, by |-> "download"]}
             IN  IF ~decrypted.ok
                 THEN [error |-> "bad decrypt", asked |-> TRUE, keys |-> used, data |-> <<>>]
                 ELSE IF sha256(encryptedChunk) # chunk.encryptedHash
                 THEN [error |-> "integrity check failed", asked |-> TRUE, keys |-> used, data |-> <<>>]
                 ELSE [error |-> "none", asked |-> TRUE, keys |-> used, data |-> decrypted.data]

\* POST /api/telegram/download with descriptors of the upload (order keeps
\* the chunkIndex values as the array listed them): downloadFileByChunks
\* sorts them and starts with the first; Buffer.concat of nothing when the
\* array is empty
downloadRequested ==
    /\ storage.pc = "uploaded"
    /\ \E order \in Lists(storage.chunks) :
           storage' = [storage EXCEPT !.chunks = SortChunks(order),
                                      !.order = [j \in 1..Len(order) |-> order[j].chunkIndex],
                                      !.i = 1,
                                      !.pc = IF order = <<>> THEN "downloaded" ELSE "download"]

\* one iteration of the loop of downloadFileByChunks
chunkFetched ==
    /\ storage.pc = "download"
    /\ LET chunk == storage.chunks[storage.i]
           got == fetchChunk(chunk)
           asked == IF got.asked THEN Append(storage.fetched, chunk.chunkIndex)
                    ELSE storage.fetched
       IN  IF got.error # "none"
           THEN storage' = [storage EXCEPT !.pc = "failed", !.error = got.error,
                               !.errorChunk = chunk.chunkIndex,
                               !.fetched = asked, !.keys = @ \cup got.keys]
           ELSE storage' = [storage EXCEPT
                               !.chunkBuffers = @ \o got.data,
                               !.fetched = asked, !.keys = @ \cup got.keys,
                               !.i = @ + 1,
                               !.pc = IF storage.i = Len(storage.chunks) THEN "downloaded" ELSE "download"]

\* downloadFileChunks(telegramStorageId, chunks) of the download manager is
\* called with the record's telegramChunks array
clientDownloadStarted ==
    /\ storage.pc = "uploaded"
    /\ \E order \in Lists(storage.chunks) :
           storage' = [storage EXCEPT !.chunks = order,
                                      !.order = [j \in 1..Len(order) |-> order[j].chunkIndex],
                                      !.i = 1,
                                      !.pc = IF order = <<>> THEN "assembled" ELSE "client"]

\* one iteration of the loop of downloadFileChunks: the POST with
\* chunks: [chunks[i]], the route's downloadFileByChunks on that one
\* descriptor, downloadedChunks[i] = the body; the error names i + 1
clientChunkFetched ==
    /\ storage.pc = "client"
    /\ LET chunk == storage.chunks[storage.i]
           got == fetchChunk(chunk)
           asked == IF got.asked THEN Append(storage.fetched, chunk.chunkIndex)
                    ELSE storage.fetched
       IN  IF got.error # "none"
           THEN storage' = [storage EXCEPT !.pc = "failed", !.error = got.error,
                               !.errorChunk = storage.i,
                               !.fetched = asked, !.keys = @ \cup got.keys]
           ELSE storage' = [storage EXCEPT
                               !.chunkBuffers = @ \o got.data,
                               !.fetched = asked, !.keys = @ \cup got.keys,
                               !.i = @ + 1,
                               !.pc = IF storage.i = Len(storage.chunks) THEN "assembled" ELSE "client"]

NextStorage ==
    \/ chunkSent /\ UNCHANGED <<manager, files, faults, upVars, downVars, transportVars, debounce, tables, route>>
    \/ chunkRejected /\ UNCHANGED <<manager, files, faults, upVars, downVars, transportVars, debounce, tables, route>>
    \/ chunkDelayElapsed /\ UNCHANGED <<manager, files, faults, upVars, downVars, transportVars, debounce, tables, route>>
    \/ uploadAborted /\ UNCHANGED <<manager, files, faults, upVars, downVars, transportVars, debounce, tables, route>>
    \/ downloadRequested /\ UNCHANGED <<manager, files, faults, upVars, downVars, transportVars, debounce, tables, route>>
    \/ chunkFetched /\ UNCHANGED <<manager, files, faults, upVars, downVars, transportVars, debounce, tables, route>>
    \/ clientDownloadStarted /\ UNCHANGED <<manager, files, faults, upVars, downVars, transportVars, debounce, tables, route>>
    \/ clientChunkFetched /\ UNCHANGED <<manager, files, faults, upVars, downVars, transportVars, debounce, tables, route>>

File(size, img) == [size |-> size, isImage |-> img]

\* what a session is given: the files the user selects and the number of
\* requests that fail
Sessions ==
    {[files |-> <<File(size, img)>>, faults |-> MaxFaults] : size \in FileSizes, img \in BOOLEAN}
    \cup {[files |-> [i \in 1..PoolFiles |-> File(1, FALSE)], faults |-> PoolFaults]}

(***************************************************************************)
(* The debounce of the queue on a clock.  Times are milliseconds.  The     *)
(* records are reduced to what the queue pass reads: pending or active.    *)
(*   timer     the deadline of the timeout held by processQueueTimeoutRef, *)
(*             -1 when none is pending                                     *)
(*   lastCall  the time of the last debouncedProcessQueue call             *)
(*   calls     the calls of the burst the last call belongs to, counted up *)
(*             to MaxCalls                                                 *)
(*   cleared   the effect cleanup cleared the timer of the last call       *)
(*   passes    the processQueue passes since the burst began               *)
(*   passAt    the time of the last pass                                   *)
(*   starts    the records the last pass started, in order                 *)
(* processQueue has no await: a pass runs to completion in one step with   *)
(* processingQueueRef set from its first to its last statement.            *)
(***************************************************************************)
\* setTimeout(() => processQueue(), 100)
DebounceMs == 100

QueueIds == 1..MaxQueued

IdleDebounce ==
    [now |-> 0, timer |-> -1, lastCall |-> -1, calls |-> 0, cleared |-> FALSE,
     passes |-> 0, passAt |-> -1, pending |-> {}, active |-> {}, starts |-> <<>>]

debouncedProcessQueueShort(d) ==
    LET fresh == d.lastCall = -1 \/ d.now - d.lastCall >= DebounceMs
    IN  [d EXCEPT !.timer = d.now + 50, !.lastCall = d.now, !.cleared = FALSE,
                  !.calls = IF fresh THEN 1 ELSE Min2(@ + 1, MaxCalls),
                  !.passes = IF fresh THEN 0 ELSE @]

\* clearTimeout(processQueueTimeoutRef.current), then setTimeout(..., 100)
debouncedProcessQueue(d) ==
    LET fresh == d.lastCall = -1 \/ d.now - d.lastCall >= DebounceMs
    IN  [d EXCEPT !.timer = d.now + DebounceMs, !.lastCall = d.now, !.cleared = FALSE,
                  !.calls = IF fresh THEN 1 ELSE Min2(@ + 1, MaxCalls),
                  !.passes = IF fresh THEN 0 ELSE @]

\* the cleanup of the effect on pendingCount: clearTimeout
effectCleanup(d) ==
    IF d.timer # -1 THEN [d EXCEPT !.timer = -1, !.cleared = TRUE] ELSE d

\* the render after a state update: when pendingCount changed the cleanup
\* of the effect runs, then the effect, which calls debouncedProcessQueue
\* when pendingCount > 0
RenderQueue(d, pendingCount) ==
    IF Cardinality(d.pending) # pendingCount
    THEN IF Cardinality(d.pending) > 0
         THEN debouncedProcessQueue(effectCleanup(d))
         ELSE effectCleanup(d)
    ELSE d

\* the setTimeout(0) callback of a pass: for (const upload of pendingUploads)
\* { if (canStartUpload()) processUpload(upload) else break }; processUpload
\* goes on only when it reads the record as pending (eager)
RECURSIVE QueueBatch(_, _, _, _)
QueueBatch(ids, active, eager, starts) ==
    IF ids = {} \/ Cardinality(active) >= MAX_CONCURRENT_UPLOADS
    THEN [active |-> active, starts |-> starts]
    ELSE LET id == Min(ids)
         IN  IF id \in eager
             THEN QueueBatch(ids \ {id}, active \cup {id}, eager, Append(starts, id))
             ELSE QueueBatch(ids \ {id}, active, eager, starts)

\* addUploads: a record enters pending
queueAdd(id) ==
    /\ id \notin debounce.pending \cup debounce.active
    /\ debounce' = RenderQueue([debounce EXCEPT !.pending = @ \cup {id}],
                               Cardinality(debounce.pending))

\* cancelUpload or removeUpload of a pending record
queueCancel(id) ==
    /\ id \in debounce.pending
    /\ debounce' = RenderQueue([debounce EXCEPT !.pending = @ \ {id}],
                               Cardinality(debounce.pending))

\* a run ends: removeFromActive in the finally of processUpload, and
\* debouncedProcessQueue() when the uploads array the run captured holds
\* another pending record
queueRunEnds(id) ==
    /\ id \in debounce.active
    /\ \E hasPendingUploads \in BOOLEAN :
           LET d == [debounce EXCEPT !.active = @ \ {id}]
           IN  debounce' = IF hasPendingUploads THEN debouncedProcessQueue(d) ELSE d

\* the timeout fires: one processQueue pass and the callback it scheduled
queueTimerFires ==
    /\ debounce.timer # -1
    /\ debounce.now >= debounce.timer
    /\ \E eager \in SUBSET debounce.pending :
           LET batch == QueueBatch(debounce.pending, debounce.active, eager, <<>>)
               started == {batch.starts[j] : j \in 1..Len(batch.starts)}
           IN  debounce' = RenderQueue([debounce EXCEPT !.timer = -1,
                                                        !.passes = @ + 1,
                                                        !.passAt = debounce.now,
                                                        !.pending = @ \ started,
                                                        !.active = batch.active,
                                                        !.starts = batch.starts],
                                       Cardinality(debounce.pending))

\* time passes, up to the deadline of a pending timeout
queueTick ==
    /\ debounce.now < MaxTime
    /\ debounce.timer = -1 \/ debounce.now < debounce.timer
    /\ debounce' = [debounce EXCEPT !.now =
           IF debounce.timer # -1 /\ debounce.timer < debounce.now + TickMs
           THEN debounce.timer ELSE debounce.now + TickMs]

NextDebounce ==
    \/ \E id \in QueueIds : queueAdd(id) /\ UNCHANGED <<manager, files, faults, upVars, downVars, transportVars, storage, tables, route>>
    \/ \E id \in QueueIds : queueCancel(id) /\ UNCHANGED <<manager, files, faults, upVars, downVars, transportVars, storage, tables, route>>
    \/ \E id \in QueueIds : queueRunEnds(id) /\ UNCHANGED <<manager, files, faults, upVars, downVars, transportVars, storage, tables, route>>
    \/ queueTimerFires /\ UNCHANGED <<manager, files, faults, upVars, downVars, transportVars, storage, tables, route>>
    \/ queueTick /\ UNCHANGED <<manager, files, faults, upVars, downVars, transportVars, storage, tables, route>>

(***************************************************************************)
(* The chunk route: one POST /api/telegram/upload/chunk, sent by the       *)
(* upload manager for chunk i of a file or by any other sender, and the    *)
(* answer of the route.  A field is in req.fields when the form carries it *)
(* with the type the route tests for.                                      *)
(***************************************************************************)
RouteFields == {"fileId", "chunkIndex", "totalChunks", "filename", "chunk"}

\* file sizes around the multiples of CHUNK_SIZE
RouteFileSizes ==
    {k * CHUNK_SIZE + d : k \in 0..RouteChunks, d \in {-1, 0, 1}} \ {-1, 0}

\* byte lengths of the chunk of other senders
RouteLengths == {0, CHUNK_SIZE - 1, CHUNK_SIZE, CHUNK_SIZE + 1}

\* upload.file.slice(start, end) with start = i * CHUNK_SIZE and
\* end = Math.min(start + CHUNK_SIZE, upload.size): its length
ClientChunkSize(size, i) ==
    LET start == i * CHUNK_SIZE
    IN  Min2(start + CHUNK_SIZE, size) - start

\* the form the client's uploadChunk sends
ClientRequest(size, i) == [fields |-> RouteFields, bytes |-> ClientChunkSize(size, i)]

\* typeof fileId !== 'string' || ... || !(blob instanceof Blob)
InvalidForm(req) == req.fields # RouteFields

TooLargeAtLimit(bytes) == bytes >= CHUNK_SIZE

\* chunkBuffer.byteLength > CHUNK_SIZE
TooLarge(bytes) == bytes > CHUNK_SIZE

IdleRoute ==
    [pc |-> "idle", sender |-> "none", size |-> 0, i |-> 0,
     req |-> [fields |-> {}, bytes |-> 0], status |-> 0, error |-> "none", calls |-> 0]

\* a request has arrived at the route
InitRoute ==
    \/ \E size \in RouteFileSizes :
       \E i \in 0..(TotalChunks(size) - 1) :
           route = [IdleRoute EXCEPT !.pc = "request", !.sender = "client", !.size = size,
                                     !.i = i, !.req = ClientRequest(size, i)]
    \/ \E fields \in SUBSET RouteFields, bytes \in RouteLengths :
           route = [IdleRoute EXCEPT !.pc = "request", !.sender = "other",
                                     !.req = [fields |-> fields, bytes |-> bytes]]

\* POST up to its return or to the await of telegramStorage.uploadChunk
routeValidates ==
    /\ route.pc = "request"
    /\ route' = IF InvalidForm(route.req)
                THEN [route EXCEPT !.pc = "answered", !.status = 400,
                                   !.error = "Invalid form data"]
                ELSE IF TooLarge(route.req.bytes)
                THEN [route EXCEPT !.pc = "answered", !.status = 400,
                                   !.error = "Chunk too large"]
                ELSE [route EXCEPT !.pc = "backend", !.calls = @ + 1]

\* telegramStorage.uploadChunk returns: 200 {success: true, chunk}
routeChunkStored ==
    /\ route.pc = "backend"
    /\ route' = [route EXCEPT !.pc = "answered", !.status = 200]

\* telegramStorage.uploadChunk throws: 500 {error: message}
routeChunkFailed ==
    /\ route.pc = "backend"
    /\ route' = [route EXCEPT !.pc = "answered", !.status = 500, !.error = "Chunk upload failed"]

NextRoute ==
    \/ routeValidates /\ UNCHANGED <<manager, files, faults, upVars, downVars, transportVars, storage, debounce, tables>>
    \/ routeChunkStored /\ UNCHANGED <<manager, files, faults, upVars, downVars, transportVars, storage, debounce, tables>>
    \/ routeChunkFailed /\ UNCHANGED <<manager, files, faults, upVars, downVars, transportVars, storage, debounce, tables>>

(***************************************************************************)
(* The files and folders tables with the cached totals of the folders.     *)
(* An id is a number, 0 stands for no folder (folderId or parentId not     *)
(* set).  totalSize and fileCount of a folder inserted without them are    *)
(* kept as 0, which is what every reader makes of them (|| 0).  Every      *)
(* mutation is one transaction.  ops counts the mutations of the session.  *)
(***************************************************************************)
FolderIds == 1..MaxFolders

StoredFileIds == 1..MaxStoredFiles

StoredSizes == 1..MaxStoredSize

AbsentFolder == [exists |-> FALSE, parentId |-> 0, totalSize |-> 0, fileCount |-> 0]

AbsentFile == [exists |-> FALSE, folderId |-> 0, size |-> 0]

IdleTables ==
    [folders |-> [f \in FolderIds |-> AbsentFolder],
     files |-> [x \in StoredFileIds |-> AbsentFile],
     ops |-> 0]

\* the ids ctx.db.insert may return
FreeFolders(T) == {f \in FolderIds : ~T.folders[f].exists}

FreeFiles(T) == {x \in StoredFileIds : ~T.files[x].exists}

\* the folders query by_user_and_parent and the files query by_user_and_folder
SubfoldersOf(T, folderId) ==
    {f \in FolderIds : T.folders[f].exists /\ T.folders[f].parentId = folderId}

FilesOf(T, folderId) ==
    {x \in StoredFileIds : T.files[x].exists /\ T.files[x].folderId = folderId}

\* a folder with the folders below it
RECURSIVE Subtree(_, _)
Subtree(T, folderId) ==
    {folderId} \cup UNION {Subtree(T, f) : f \in SubfoldersOf(T, folderId)}

RECURSIVE SumOfSizes(_, _)
SumOfSizes(T, xs) ==
    IF xs = {} THEN 0
    ELSE LET x == Min(xs) IN T.files[x].size + SumOfSizes(T, xs \ {x})

\* calculateFolderSizeRecursive
calculateFolderSize(T, folderId) ==
    LET xs == UNION {FilesOf(T, f) : f \in Subtree(T, folderId)}
    IN  [totalSize |-> SumOfSizes(T, xs), fileCount |-> Cardinality(xs)]

\* updateFolderSizes: patches the folder, then its parents
RECURSIVE updateFolderSizes(_, _, _, _)
updateFolderSizes(T, folderId, sizeChange, fileCountChange) ==
    IF folderId = 0 \/ ~T.folders[folderId].exists THEN T
    ELSE updateFolderSizes(
             [T EXCEPT !.folders[folderId].totalSize = @ + sizeChange,
                       !.folders[folderId].fileCount = @ + fileCountChange],
             T.folders[folderId].parentId, sizeChange, fileCountChange)

\* the folders a folder argument is chosen from: an existing folder or none
FolderChoices(T) == {0} \cup {f \in FolderIds : T.folders[f].exists}

\* the targets the folder picker offers for a folder: not the folder itself
\* and none of the folders below it
ValidTargets(T, folderId) == FolderChoices(T) \ Subtree(T, folderId)

Counted(T) == [T EXCEPT !.ops = @ + 1]

createFolder(parentId) ==
    /\ tables.ops < MaxTableOps
    /\ FreeFolders(tables) # {}
    /\ parentId \in FolderChoices(tables)
    /\ tables' = Counted([tables EXCEPT !.folders[Min(FreeFolders(tables))] =
                             [exists |-> TRUE, parentId |-> parentId,
                              totalSize |-> 0, fileCount |-> 0]])

createFile(folderId, size) ==
    /\ tables.ops < MaxTableOps
    /\ FreeFiles(tables) # {}
    /\ folderId \in FolderChoices(tables)
    /\ LET inserted == [tables EXCEPT !.files[Min(FreeFiles(tables))] =
                           [exists |-> TRUE, folderId |-> folderId, size |-> size]]
       IN  tables' = Counted(updateFolderSizes(inserted, folderId, size, 1))

moveFile(fileId, folderId) ==
    /\ tables.ops < MaxTableOps
    /\ tables.files[fileId].exists
    /\ folderId \in FolderChoices(tables)
    /\ LET file == tables.files[fileId]
           patched == [tables EXCEPT !.files[fileId].folderId = folderId]
           left == updateFolderSizes(patched, file.folderId, 0 - file.size, 0 - 1)
       IN  tables' = Counted(updateFolderSizes(left, folderId, file.size, 1))

copyFile(fileId, newFolderId) ==
    /\ tables.ops < MaxTableOps
    /\ tables.files[fileId].exists
    /\ FreeFiles(tables) # {}
    /\ newFolderId \in FolderChoices(tables)
    /\ LET file == tables.files[fileId]
           inserted == [tables EXCEPT !.files[Min(FreeFiles(tables))] =
                           [exists |-> TRUE, folderId |-> newFolderId, size |-> file.size]]
       IN  tables' = Counted(updateFolderSizes(inserted, newFolderId, file.size, 1))

deleteFile(fileId) ==
    /\ tables.ops < MaxTableOps
    /\ tables.files[fileId].exists
    /\ LET file == tables.files[fileId]
           updated == updateFolderSizes(tables, file.folderId, 0 - file.size, 0 - 1)
       IN  tables' = Counted([updated EXCEPT !.files[fileId] = AbsentFile])

\* patches parentId and updatedAt, nothing else
moveFolder(folderId, parentId) ==
    /\ tables.ops < MaxTableOps
    /\ tables.folders[folderId].exists
    /\ parentId \in ValidTargets(tables, folderId)
    /\ tables' = Counted([tables EXCEPT !.folders[folderId].parentId = parentId])

\* copyFolderContents: every subfolder is inserted under the target and its
\* contents copied, then every file is inserted with folderId = target
RECURSIVE copyFolderContents(_, _, _)
RECURSIVE CopySubfolders(_, _, _)
RECURSIVE CopyFiles(_, _, _)
CopyFiles(T, xs, targetFolderId) ==
    IF xs = {} THEN T
    ELSE LET x == Min(xs)
         IN  CopyFiles([T EXCEPT !.files[Min(FreeFiles(T))] =
                           [exists |-> TRUE, folderId |-> targetFolderId,
                            size |-> T.files[x].size]],
                       xs \ {x}, targetFolderId)

CopySubfolders(T, subfolders, targetFolderId) ==
    IF subfolders = {} THEN T
    ELSE LET subfolder == Min(subfolders)
             newSubfolderId == Min(FreeFolders(T))
             inserted == [T EXCEPT !.folders[newSubfolderId] =
                             [exists |-> TRUE, parentId |-> targetFolderId,
                              totalSize |-> 0, fileCount |-> 0]]
         IN  CopySubfolders(copyFolderContents(inserted, subfolder, newSubfolderId),
                            subfolders \ {subfolder}, targetFolderId)

copyFolderContents(T, sourceFolderId, targetFolderId) ==
    LET subfolders == SubfoldersOf(T, sourceFolderId)
        xs == FilesOf(T, sourceFolderId)
    IN  CopyFiles(CopySubfolders(T, subfolders, targetFolderId), xs, targetFolderId)

\* enabled while the tables of the model have room for the copy
copyFolder(folderId, newParentId) ==
    /\ tables.ops < MaxTableOps
    /\ tables.folders[folderId].exists
    /\ newParentId \in ValidTargets(tables, folderId)
    /\ Cardinality(Subtree(tables, folderId)) <= Cardinality(FreeFolders(tables))
    /\ calculateFolderSize(tables, folderId).fileCount <= Cardinality(FreeFiles(tables))
    /\ LET newFolderId == Min(FreeFolders(tables))
           inserted == [tables EXCEPT !.folders[newFolderId] =
                           [exists |-> TRUE, parentId |-> newParentId,
                            totalSize |-> 0, fileCount |-> 0]]
       IN  tables' = Counted(copyFolderContents(inserted, folderId, newFolderId))

\* deleteFolderContents: the subfolders with their contents, then the files
RECURSIVE deleteFolderContents(_, _)
RECURSIVE DeleteSubfolders(_, _)
DeleteSubfolders(T, subfolders) ==
    IF subfolders = {} THEN T
    ELSE LET subfolder == Min(subfolders)
             emptied == deleteFolderContents(T, subfolder)
         IN  DeleteSubfolders([emptied EXCEPT !.folders[subfolder] = AbsentFolder],
                              subfolders \ {subfolder})

deleteFolderContents(T, folderId) ==
    LET emptied == DeleteSubfolders(T, SubfoldersOf(T, folderId))
    IN  [emptied EXCEPT !.files = [x \in StoredFileIds |->
                                      IF x \in FilesOf(T, folderId) THEN AbsentFile
                                      ELSE emptied.files[x]]]

deleteFolder(folderId) ==
    /\ tables.ops < MaxTableOps
    /\ tables.folders[folderId].exists
    /\ tables' = Counted([deleteFolderContents(tables, folderId) EXCEPT
                             !.folders[folderId] = AbsentFolder])

NextTables ==
    \/ \E parentId \in {0} \cup FolderIds : createFolder(parentId) /\ UNCHANGED <<manager, files, faults, upVars, downVars, transportVars, storage, debounce, route>>
    \/ \E folderId \in {0} \cup FolderIds, size \in StoredSizes : createFile(folderId, size) /\ UNCHANGED <<manager, files, faults, upVars, downVars, transportVars, storage, debounce, route>>
    \/ \E fileId \in StoredFileIds, folderId \in {0} \cup FolderIds : moveFile(fileId, folderId) /\ UNCHANGED <<manager, files, faults, upVars, downVars, transportVars, storage, debounce, route>>
    \/ \E fileId \in StoredFileIds, folderId \in {0} \cup FolderIds : copyFile(fileId, folderId) /\ UNCHANGED <<manager, files, faults, upVars, downVars, transportVars, storage, debounce, route>>
    \/ \E fileId \in StoredFileIds : deleteFile(fileId) /\ UNCHANGED <<manager, files, faults, upVars, downVars, transportVars, storage, debounce, route>>
    \/ \E folderId \in FolderIds, parentId \in {0} \cup FolderIds : moveFolder(folderId, parentId) /\ UNCHANGED <<manager, files, faults, upVars, downVars, transportVars, storage, debounce, route>>
    \/ \E folderId \in FolderIds, parentId \in {0} \cup FolderIds : copyFolder(folderId, parentId) /\ UNCHANGED <<manager, files, faults, upVars, downVars, transportVars, storage, debounce, route>>
    \/ \E folderId \in FolderIds : deleteFolder(folderId) /\ UNCHANGED <<manager, files, faults, upVars, downVars, transportVars, storage, debounce, route>>

Init ==
    /\ manager \in {"upload", "download"}
    /\ \E s \in Sessions : files = s.files /\ faults = s.faults
    /\ InitUpload
    /\ InitDownload
    /\ IdleTransport
    /\ storage = IdleStorage
    /\ debounce = IdleDebounce
    /\ tables = IdleTables
    /\ route = IdleRoute

Next ==
    \/ UploadUser
    \/ processQueue
    \/ UploadStep
    \/ DownloadUser
    \/ processDownloadQueue
    \/ DownloadStep

Spec == Init /\ [][Next]_vars

InitT ==
    /\ manager = "none"
    /\ files = <<>>
    /\ faults = 0
    /\ InitUpload
    /\ InitDownload
    /\ InitTransport
    /\ storage = IdleStorage
    /\ debounce = IdleDebounce
    /\ tables = IdleTables
    /\ route = IdleRoute

SpecTransport == InitT /\ [][NextTransport]_vars

InitS ==
    /\ manager = "none"
    /\ files = <<>>
    /\ faults = 0
    /\ InitUpload
    /\ InitDownload
    /\ IdleTransport
    /\ InitStorage
    /\ debounce = IdleDebounce
    /\ tables = IdleTables
    /\ route = IdleRoute

SpecStorage == InitS /\ [][NextStorage]_vars

InitD ==
    /\ manager = "none"
    /\ files = <<>>
    /\ faults = 0
    /\ InitUpload
    /\ InitDownload
    /\ IdleTransport
    /\ storage = IdleStorage
    /\ debounce = IdleDebounce
    /\ tables = IdleTables
    /\ route = IdleRoute

SpecDebounce == InitD /\ [][NextDebounce]_vars

InitR ==
    /\ manager = "none"
    /\ files = <<>>
    /\ faults = 0
    /\ InitUpload
    /\ InitDownload
    /\ IdleTransport
    /\ storage = IdleStorage
    /\ debounce = IdleDebounce
    /\ tables = IdleTables
    /\ InitRoute

SpecRoute == InitR /\ [][NextRoute]_vars

\* a session that begins after earlier failures and retries of one file:
\* its record is in error, with a retryCount just below the ceiling, and
\* no run is left
AgedRetryCounts == {RETRY_ATTEMPTS * 2 - 2, RETRY_ATTEMPTS * 2 - 1}

InitRetry ==
    /\ manager = "upload"
    /\ files = <<>>
    /\ faults = RetryFaults
    /\ \E size \in FileSizes, retryCount \in AgedRetryCounts :
           uploads = [id \in UploadIds |->
                        IF id = 1
                        THEN [NewUpload(size, FALSE) EXCEPT !.status = "error",
                                                            !.error = "retry",
                                                            !.retryCount = retryCount]
                        ELSE AbsentUpload]
    /\ activeUploads = {}
    /\ uploadRuns = EmptyBag
    /\ uploadTimer = FALSE
    /\ nextUpload = 1
    /\ createRequests = [id \in UploadIds |-> [made |-> FALSE, chunks |-> {}]]
    /\ InitDownload
    /\ IdleTransport
    /\ storage = IdleStorage
    /\ debounce = IdleDebounce
    /\ tables = IdleTables
    /\ route = IdleRoute

\* the user pauses, resumes, retries and cancels; the queue and the runs go on
NextRetry ==
    \/ \E id \in UploadIds :
        \/ pauseUpload(id)
        \/ resumeUpload(id)
        \/ retryUpload(id)
        \/ cancelUpload(id)
    \/ processQueue
    \/ UploadStep

SpecRetry == InitRetry /\ [][NextRetry]_vars

\* the session begins with empty tables
InitF ==
    /\ manager = "none"
    /\ files = <<>>
    /\ faults = 0
    /\ InitUpload
    /\ InitDownload
    /\ IdleTransport
    /\ storage = IdleStorage
    /\ debounce = IdleDebounce
    /\ tables = IdleTables
    /\ route = IdleRoute

SpecTables == InitF /\ [][NextTables]_vars

(***************************************************************************)
(* Claims                                                                  *)
(***************************************************************************)
Uploading == {id \in UploadIds : uploads[id].status = "uploading"}

Downloading == {id \in DownloadIds : downloads[id].status = "downloading"}

C2_CancelledStays ==
    [][/\ \A id \in UploadIds :
            /\ cancelUpload(id) /\ uploads[id].status = "uploading"
                  => uploads'[id].status = "cancelled"
            /\ uploads[id].status = "cancelled"
                  => uploads'[id].status \in {"cancelled", "absent"}
       /\ \A id \in DownloadIds :
            /\ cancelDownload(id) /\ downloads[id].status = "downloading"
                  => downloads'[id].status = "cancelled"
            /\ downloads[id].status = "cancelled"
                  => downloads'[id].status \in {"cancelled", "absent"}]_vars

\* C3: a record whose status is completed never changes status again; it
\* leaves that state only by being removed.
C3_CompletedStays ==
    [][/\ \A id \in UploadIds :
            uploads[id].status = "completed"
               => uploads'[id].status \in {"completed", "absent"}
       /\ \A id \in DownloadIds :
            downloads[id].status = "completed"
               => downloads'[id].status \in {"completed", "absent"}]_vars

\* the processUpload runs that start in this step
StartedRuns == {run \in RunsOf(uploadRuns') : ~(run \in RunsOf(uploadRuns)) /\ run.i = run.from /\ run.n = 0 /\ run.pc = "fetch"}

\* C4: a chunked upload paused at currentChunk = k ends in paused, and its
\* currentChunk does not fall below k while it is paused and while it waits
\* as pending after resumeUpload; the resumed run starts at the record's
\* currentChunk, so that no chunk with an index below k is sent again.
C4_ResumeContinues ==
    [][\A id \in UploadIds :
          /\ pauseUpload(id) => uploads'[id].status = "paused"
          /\ uploads[id].status \in {"paused", "pending"}
               /\ uploads'[id].status \in {"paused", "pending", "uploading"}
                => uploads'[id].currentChunk >= uploads[id].currentChunk
          /\ uploads[id].status = "pending"
                => \A run \in StartedRuns : run.id = id => run.from = uploads[id].currentChunk]_vars

\* C5: when a chunked upload is completed, the descriptor list stored on the
\* record and the list handed to createFileRecord hold a descriptor for
\* every chunk index in [0, totalChunks).
C5_DescriptorsComplete ==
    \A id \in UploadIds :
        uploads[id].status = "completed" /\ ~uploads[id].isImage
           => /\ uploads[id].chunks = 0 .. (TotalChunks(uploads[id].size) - 1)
              /\ createRequests[id].made
                    => createRequests[id].chunks = 0 .. (TotalChunks(uploads[id].size) - 1)

Callers == {"sendDocument", "getFile", "downloadFile"}

\* C6: with a backend that answers 503 to every request, the upload is in
\* error after exactly retryAttempts + 1 = 5 backend attempts for the chunk,
\* counted over the client's uploadChunk, the chunk route and fetchWithRetry.
C6_ErrorAfterFiveAttempts ==
    op = "chunk" /\ backend = {Status(503)} /\ transfer = "error" => requests = 4 + 1

\* the fifth attempt of a call failed with a retryable status or an error
C7_Exhausted ==
    /\ Finished(fetchCall)
    /\ fetchCall.attempt = 4
    /\ \/ fetchCall.last.kind \in {"network", "timeout"}
       \/ fetchCall.last.kind = "status" /\ fetchCall.last.status \in {429, 500, 502, 503, 504}

\* C7: fetchWithRetry makes at most 5 attempts, and when the fifth ends in a
\* retryable status or a network error, sendDocument, getFile and
\* downloadFile throw: the failure is neither a success nor dropped.
C7_BudgetSurfaced ==
    /\ fetchCall.attempt + 1 <= 5
    /\ op \in Callers => requests <= 5
    /\ C7_Exhausted
          => /\ \A o \in Callers : CallerResult(o, fetchCall) \in {"transient", "abortword"}
             /\ op \in Callers /\ transfer # "running" => transfer \in {"transient", "abortword"}

\* five attempts were made, the fifth was answered 503, and the caller threw
C7_Witness ==
    /\ op \in Callers
    /\ requests = 5
    /\ C7_Exhausted /\ fetchCall.last = Status(503)
    /\ transfer = "transient"

C8_Retryable(o) ==
    \/ o.kind \in {"network", "timeout"}
    \/ o.kind = "status" /\ o.status \in {429, 500, 502, 503, 504}

C8_Refused(o) == o.kind = "status" /\ o.status # 200 /\ ~(o.status \in {429, 500, 502, 503, 504})

\* the attempt in flight is answered in this step
C8_Answered == fetchCall.pc = "fetch" /\ fetchCall'.pc # "fetch" /\ signal' = signal

C8_NextAttempt == fetchCall'.pc = "fetch" /\ fetchCall'.attempt = fetchCall.attempt + 1

\* C8 as stated: another attempt starts if and only if the previous one
\* returned a status in {429, 500, 502, 503, 504} or failed with a network
\* error or timeout, and the budget is not exhausted; any other non-OK
\* status is returned without a further attempt and without a backoff sleep.
C8_RetryIff ==
    [][/\ C8_NextAttempt => C8_Retryable(fetchCall.last) /\ fetchCall.attempt < 4
       /\ C8_Answered /\ C8_Retryable(fetchCall'.last) /\ fetchCall.attempt < 4
             => fetchCall'.pc = "sleep"
       /\ fetchCall.pc = "sleep" /\ fetchCall' # fetchCall => C8_NextAttempt
       /\ C8_Answered /\ C8_Refused(fetchCall'.last)
             => fetchCall'.pc = "returned" /\ sleeps' = sleeps /\ requests' = requests]_vars

\* C8, amended: as stated, except that the backoff sleep before the next
\* attempt also ends when the external signal is aborted, and then no
\* attempt follows.
C8_RetryIffNotAborted ==
    [][/\ C8_NextAttempt
             => C8_Retryable(fetchCall.last) /\ fetchCall.attempt < 4 /\ ~signal.aborted
       /\ C8_Answered /\ C8_Retryable(fetchCall'.last) /\ fetchCall.attempt < 4
             => fetchCall'.pc = "sleep"
       /\ fetchCall.pc = "sleep" /\ fetchCall' # fetchCall
             => \/ C8_NextAttempt
                \/ signal.given /\ ~signal.aborted /\ signal'.aborted /\ fetchCall'.pc = "thrown"
       /\ C8_Answered /\ C8_Refused(fetchCall'.last)
             => fetchCall'.pc = "returned" /\ sleeps' = sleeps /\ requests' = requests]_vars

\* a 404 that follows two retried attempts has been returned
C8_Witness ==
    /\ fetchCall.pc = "returned"
    /\ fetchCall.last = Status(404)
    /\ fetchCall.attempt = 2
    /\ sleeps = 2

\* C9: when the backend answers a chunk upload with 401, 403 or 404, no layer
\* sends another request for the chunk and the record goes to error.
C9_PermanentNotRetried ==
    op = "chunk" /\ (\A o \in backend : o.kind = "status" /\ o.status \in {401, 403, 404})
       => /\ requests <= 1
          /\ client.pc = "done" /\ ~client.aborted => transfer = "error"

\* C10: aborting the external signal during an attempt or a backoff sleep
\* makes fetchWithRetry reject at once with the abort error, no attempt and
\* no sleep follows, and that outcome is told apart from an exhausted retry
\* budget: a call that rejects with the abort error was aborted.
C10_AbortDistinct ==
    [][/\ signal.given /\ ~signal.aborted /\ signal'.aborted /\ fetchCall.pc \in {"fetch", "sleep"}
             => fetchCall'.pc = "thrown" /\ fetchCall'.error = "AbortError"
       /\ op = "sendDocument" /\ fetchCall.pc = "thrown"
             => fetchCall' = fetchCall /\ requests' = requests /\ sleeps' = sleeps
       /\ signal.given /\ fetchCall'.pc = "thrown" /\ fetchCall'.error = "AbortError"
             => signal'.aborted]_vars

\* C11: when the cancellation token is aborted while a transfer waits in a
\* retry or backoff delay, the wait ends at once: no run is left waiting in
\* the client's uploadChunk retry delay, and no call in the backoff sleep of
\* fetchWithRetry, with its token aborted.
C11_WaitEndsAtOnce ==
    /\ client.pc = "sleep" => ~client.aborted
    /\ fetchCall.pc = "sleep" => ~(signal.given /\ signal.aborted)

\* C12: once the cancellation token of a transfer is aborted, no further
\* backend attempt for that transfer begins.
C12_NoAttemptAfterAbort ==
    [][client.aborted \/ (signal.given /\ signal.aborted) => requests' = requests]_vars

\* C13: when a slot has freed while a record is pending, a pending record is
\* promoted without further user action: the manager never comes to rest (no
\* run left, queue timer not armed) with a pending record and a free slot.
C13_PendingPromoted ==
    /\ (\E id \in UploadIds : uploads[id].status = "pending")
         /\ Cardinality(activeUploads) < MAX_CONCURRENT_UPLOADS
         /\ (\E id \in UploadIds : uploads[id].status \in {"completed", "error", "paused", "cancelled"})
          => uploadTimer \/ uploadRuns # EmptyBag
    /\ (\E id \in DownloadIds : downloads[id].status = "pending")
         /\ Cardinality(activeDownloads) < MAX_CONCURRENT_DOWNLOADS
         /\ (\E id \in DownloadIds : downloads[id].status \in {"completed", "error", "paused", "cancelled"})
          => downloadTimer \/ downloadRuns # EmptyBag

\* C14: a record that enters pending through resume or retry gets a new
\* cancellation token that is not aborted and that no earlier run holds, and
\* a pending record never holds an aborted token, so that a run started from
\* pending does not begin cancelled.
C14_PendingTokenFresh ==
    [][/\ \A id \in UploadIds :
            /\ uploads'[id].status = "pending" => ~uploads'[id].aborted
            /\ resumeUpload(id) \/ retryUpload(id)
                  => \A run \in RunsOf(uploadRuns') : run.id = id => ~run.own
            /\ \A run \in StartedRuns : ~run.aborted
       /\ \A id \in DownloadIds :
            /\ downloads'[id].status = "pending" => ~downloads'[id].aborted
            /\ resumeDownload(id) \/ retryDownload(id)
                  => \A run \in RunsOf(downloadRuns') : run.id # id]_vars

\* a record is pending again while a run of it still holds the token that
\* an earlier pause or cancel aborted
C14_Witness ==
    \E id \in UploadIds :
        /\ uploads[id].status = "pending"
        /\ ~uploads[id].aborted
        /\ \E run \in RunsOf(uploadRuns) : run.id = id /\ run.aborted /\ ~run.own

\* C15: over the lifetime of a record currentChunk never decreases and
\* stays within 0 .. totalChunks.
C15_ProgressMonotonic ==
    [][/\ \A id \in UploadIds :
            uploads[id].status # "absent" /\ uploads'[id].status # "absent"
               => /\ uploads'[id].currentChunk >= uploads[id].currentChunk
                  /\ uploads'[id].currentChunk \in 0 .. TotalChunks(uploads'[id].size)
       /\ \A id \in DownloadIds :
            downloads[id].status # "absent" /\ downloads'[id].status # "absent"
               => /\ downloads'[id].currentChunk >= downloads[id].currentChunk
                  /\ downloads'[id].currentChunk \in 0 .. downloads'[id].totalChunks]_vars

\* a run of record id ends in this step with a failure that is not an abort
C16_RunFails(id) ==
    \E run \in RunsOf(uploadRuns), kind \in {"transient", "permanent"} :
        /\ run.id = id
        /\ \/ chunkFailed(run, kind) /\ ~uploadChunkRetries(run.n, run.aborted)
           \/ imageFailed(run, kind)
           \/ fileRecordFailed(run, kind)

\* C16: retryCount grows by exactly one with each run that fails other than
\* by an abort and is never reset, and a record whose retryCount has reached
\* 2 * RETRY_ATTEMPTS = 6 is not made active again.
C16_RetryCountCeiling ==
    [][\A id \in UploadIds :
          uploads[id].status # "absent" /\ uploads'[id].status # "absent"
             => /\ uploads'[id].retryCount >= uploads[id].retryCount
                /\ C16_RunFails(id) => uploads'[id].retryCount = uploads[id].retryCount + 1
                /\ uploads[id].retryCount >= 6 /\ uploads[id].status # "uploading"
                      => uploads'[id].status # "uploading"]_vars

\* C17: a record in status error leaves it only by an explicit retry (to
\* pending, with retryCount unchanged), by an explicit cancel, or by removal.
C17_ErrorNeedsUser ==
    [][/\ \A id \in UploadIds :
            uploads[id].status = "error" /\ uploads'[id].status # "error"
               => \/ retryUpload(id) /\ uploads'[id].status = "pending"
                        /\ uploads'[id].retryCount = uploads[id].retryCount
                  \/ cancelUpload(id) /\ uploads'[id].status = "cancelled"
                  \/ uploads'[id].status = "absent"
       /\ \A id \in DownloadIds :
            downloads[id].status = "error" /\ downloads'[id].status # "error"
               => \/ retryDownload(id) /\ downloads'[id].status = "pending"
                        /\ downloads'[id].retryCount = downloads[id].retryCount
                  \/ cancelDownload(id) /\ downloads'[id].status = "cancelled"
                  \/ downloads'[id].status = "absent"]_vars

\* a run of record id ends on a failed request while its token is not aborted
C18_RunFails(id) ==
    \E run \in RunsOf(uploadRuns), kind \in FailureKinds :
        /\ run.id = id /\ ~run.aborted
        /\ \/ chunkFailed(run, kind) /\ ~uploadChunkRetries(run.n, run.aborted)
           \/ imageFailed(run, kind)
           \/ fileRecordFailed(run, kind)

C18_DownloadFails(id) ==
    \E run \in RunsOf(downloadRuns), kind \in FailureKinds :
        run.id = id /\ chunkDownloadFailed(run, kind)

\* C18: a run that fails for a reason other than an abort of its own token
\* leaves its record in error, never in paused; a run stopped by
\* pauseUpload/pauseDownload leaves the record in paused, never in error.
C18_FailureIsError ==
    [][/\ \A id \in UploadIds :
            /\ uploads[id].status # "absent" /\ C18_RunFails(id)
                  => uploads'[id].status = "error"
            /\ pauseUpload(id) => uploads'[id].status = "paused"
       /\ \A id \in DownloadIds :
            /\ downloads[id].status # "absent" /\ C18_DownloadFails(id)
                  => downloads'[id].status = "error"
            /\ pauseDownload(id) => downloads'[id].status = "paused"]_vars

\* C19: within one file's upload the chunk requests go out one after the
\* other in increasing chunkIndex order, chunk i + 1 only after chunk i was
\* acknowledged, also across pause/resume: at no time are two chunk requests
\* of the same record in flight, and the request in flight is for the chunk
\* that follows the acknowledged ones.
C19_ChunksInOrder ==
    \A id \in UploadIds :
        \A r1, r2 \in RunsOf(uploadRuns) :
            r1.id = id /\ r2.id = id /\ r1.pc = "fetch" /\ r2.pc = "fetch"
               => /\ r1 = r2
                  /\ CopiesIn(r1, uploadRuns) = 1
                  /\ uploads[id].status # "absent" => r1.i >= uploads[id].currentChunk

\* the array handed to the download lists every descriptor of the upload once
C20_ChunksOfUpload ==
    /\ Len(storage.order) = Len(storage.documents)
    /\ {storage.order[j] : j \in 1..Len(storage.order)} = 0..(Len(storage.documents) - 1)

\* C20: for every buffer B with 0 < |B|, downloadFileByChunks on the chunks
\* uploadFile(B) returned gives back exactly B when the backend stores and
\* returns the documents faithfully (|B| below, at and above the chunk size
\* and at its multiples), the download does not fail, and upload and
\* download derive the same key for the same (fileId, chunkIndex).
C20_RoundTrip ==
    /\ storage.kind = "faithful" /\ Len(storage.fileBuffer) > 0
          => /\ storage.pc = "downloaded" /\ C20_ChunksOfUpload
                   => storage.chunkBuffers = storage.fileBuffer
             /\ storage.error \notin {"Missing file ID", "bad decrypt", "integrity check failed"}
    /\ \A a, b \in storage.keys : a.chunkIndex = b.chunkIndex => a.key = b.key

C20_Witness ==
    /\ storage.pc = "downloaded" /\ storage.kind = "faithful"
    /\ Len(storage.fileBuffer) = 2 + 1
    /\ Len(storage.chunks) = 2
    /\ storage.chunkBuffers = storage.fileBuffer
    /\ \E a, b \in storage.keys : a.chunkIndex = 1 /\ b.chunkIndex = 1 /\ a.by # b.by

\* the decrypted documents of the descriptors with chunkIndex j, j + 1, ...
\* up to the last, concatenated
RECURSIVE C21_InIndexOrder(_)
C21_InIndexOrder(j) ==
    IF j >= Len(storage.chunks) THEN <<>>
    ELSE LET c == CHOOSE x \in {storage.chunks[a] : a \in 1..Len(storage.chunks)} : x.chunkIndex = j
         IN  decryptChunk(storage.documents[c.fileId],
                          generateEncryptionKey(storage.fileId, j)).data
                 \o C21_InIndexOrder(j + 1)

\* C21: downloadFileByChunks returns the same bytes for every order of the
\* same descriptor list: whatever the order of the input array, the output
\* is the concatenation of the decrypted chunks in increasing chunkIndex order.
C21_OrderIndependent ==
    storage.pc = "downloaded" /\ C20_ChunksOfUpload
        => storage.chunkBuffers = C21_InIndexOrder(0)

C21_Witness ==
    /\ storage.pc = "downloaded"
    /\ storage.order = <<2, 0, 1>>
    /\ storage.chunkBuffers = C21_InIndexOrder(0)
    /\ Len(storage.chunkBuffers) = 5

\* C22: the download manager's per-chunk download assembles the blob by
\* chunkIndex: for any order of the record's telegramChunks array the bytes
\* of the chunk with index j stand at position j of the concatenation.
C22_AssembledByIndex ==
    storage.pc = "assembled" /\ C20_ChunksOfUpload
        => storage.chunkBuffers = C21_InIndexOrder(0)

\* the bytes the backend returns for the descriptor the loop is at do not
\* hash to the descriptor's encryptedHash
C23_HashMismatch ==
    /\ storage.pc = "download"
    /\ LET chunk == storage.chunks[storage.i]
       IN  /\ chunk.fileId # 0
           /\ KindOf(chunk.messageId) # "unavailable"
           /\ sha256(downloadFile(storage.documents, chunk.fileId, KindOf(chunk.messageId)))
                  # chunk.encryptedHash

\* C23: when the bytes downloaded for a chunk do not hash to the
\* descriptor's encryptedHash, the download fails with the integrity-check
\* error for that chunk, not with a decryption error, and returns no
\* plaintext of that chunk.
C23_IntegrityErrorFirst ==
    [][C23_HashMismatch /\ storage' # storage
          => /\ storage'.pc = "failed"
             /\ storage'.error = "integrity check failed"
             /\ storage'.errorChunk = storage.chunks[storage.i].chunkIndex
             /\ storage'.chunkBuffers = storage.chunkBuffers]_vars

\* C24: a reassembly or download succeeds only if every chunk index of the
\* file in [0, totalChunks) was fetched, verified and decrypted exactly once:
\* a descriptor array with a missing or repeated index never ends in success
\* and the bytes returned are never shorter than the file.
C24_NoPartialFile ==
    storage.pc \in {"downloaded", "assembled"}
       => /\ \A j \in 0..(Len(storage.documents) - 1) :
                 /\ \E a \in 1..Len(storage.fetched) : storage.fetched[a] = j
                 /\ \E k \in storage.keys : k.chunkIndex = j /\ k.by = "download"
          /\ Len(storage.fetched) = Len(storage.documents)
          /\ Len(storage.chunkBuffers) = Len(storage.fileBuffer)

\* C25: in downloadFileByChunks the first chunk, in chunkIndex order, that
\* fails at any step aborts the whole call with an error naming that
\* chunk's chunkIndex: no chunk before it failed unnoticed, no later chunk
\* is fetched, and the call returns nothing afterwards.
C25_FirstFailureAborts ==
    [][/\ storage.pc = "download" /\ storage' # storage
             => LET chunk == storage.chunks[storage.i]
                IN  /\ \A a \in 1..(storage.i - 1) : storage.chunks[a].messageId # storage.bad
                    /\ \A a \in 1..(storage.i - 1) : storage.chunks[a].chunkIndex <= chunk.chunkIndex
                    /\ chunk.messageId = storage.bad
                          => /\ storage'.pc = "failed"
                             /\ storage'.error # "none"
                             /\ storage'.errorChunk = chunk.chunkIndex
                             /\ storage'.chunkBuffers = storage.chunkBuffers
                             /\ \A a \in 1..Len(storage'.fetched) :
                                    storage'.fetched[a] <= chunk.chunkIndex
       /\ storage.pc = "failed" => storage' = storage]_vars

C25_Witness ==
    /\ storage.pc = "failed"
    /\ storage.order = <<2, 1, 0>>
    /\ storage.fetched = <<0, 1>>
    /\ storage.errorChunk = 1
    /\ storage.error = "integrity check failed"

\* C26: an upload of a zero-length input is rejected upfront: for a buffer
\* of size 0 no chunk of uploadFile reaches the backend and the call does
\* not end as a successful upload.
C26_EmptyRejected ==
    Len(storage.fileBuffer) = 0
        => /\ storage.documents = <<>>
           /\ storage.pc # "uploaded"

\* the plaintext of the document stored for chunkIndex j
C27_Slice(j) ==
    decryptChunk(storage.documents[j + 1], generateEncryptionKey(storage.fileId, j)).data

\* C27: for an input of n > 0 bytes and chunk size S a finished uploadFile
\* has produced exactly ceil(n/S) chunks with chunkIndex 0..ceil(n/S)-1,
\* every chunk but the last of S bytes, the last of n - S*(ceil(n/S)-1)
\* bytes, the chunks being the consecutive slices of the input (an input of
\* at most S bytes gives the one chunk the loop would give); 12 MiB with
\* S = 5 MiB are 3 chunks.
C27_ChunkLayout ==
    /\ (12 * 1024 * 1024 + 5 * 1024 * 1024 - 1) \div (5 * 1024 * 1024) = 3
    /\ TotalChunks(12 * 1024 * 1024) = 3
    /\ storage.pc = "uploaded" /\ Len(storage.fileBuffer) > 0
          => LET n == Len(storage.fileBuffer)
                 count == (n + ChunkBytes - 1) \div ChunkBytes
             IN  /\ Len(storage.chunks) = count
                 /\ Len(storage.documents) = count
                 /\ storage.sent = [j \in 1..count |-> j - 1]
                 /\ \A j \in 0..(count - 1) :
                        /\ storage.chunks[j + 1].chunkIndex = j
                        /\ Len(C27_Slice(j)) = IF j < count - 1 THEN ChunkBytes
                                               ELSE n - ChunkBytes * (count - 1)
                        /\ C27_Slice(j) = SubSeq(storage.fileBuffer, j * ChunkBytes + 1,
                                                 j * ChunkBytes + Len(C27_Slice(j)))

C27_Witness ==
    /\ storage.pc = "uploaded"
    /\ Len(storage.fileBuffer) = 5
    /\ Len(storage.chunks) = 3
    /\ Len(C27_Slice(0)) = 2 /\ Len(C27_Slice(1)) = 2 /\ Len(C27_Slice(2)) = 1

\* C28: every descriptor a successful uploadChunk returned has chunkId =
\* fileId_chunkIndex, the requested chunkIndex, the backend's message id, an
\* encryptedHash equal to the SHA-256 of the encrypted bytes transmitted,
\* and a defined backend file reference.
C28_DescriptorComplete ==
    storage.pc \in {"send", "sleep", "uploaded"}
       => \A j \in 1..Len(storage.chunks) :
              LET c == storage.chunks[j]
              IN  /\ c.chunkId = <<storage.fileId, j - 1>>
                  /\ c.chunkIndex = j - 1
                  /\ c.messageId = j
                  /\ c.encryptedHash = sha256(storage.documents[j])
                  /\ c.fileId # 0

\* a run of record id ends on a failure the manager classifies as permanent
C29_PermanentFailure(id) ==
    \E run \in RunsOf(uploadRuns) :
        /\ run.id = id
        /\ \/ chunkFailed(run, "permanent") /\ ~(run.n < 3 /\ ~run.aborted)
           \/ imageFailed(run, "permanent")
           \/ fileRecordFailed(run, "permanent")

\* C29: a transfer record with status error always carries an error
\* message, and when the failure was classified as permanent the message is
\* the one marked as requiring a manual retry.
C29_ErrorHasMessage ==
    [][/\ \A id \in UploadIds :
            /\ uploads'[id].status = "error" => uploads'[id].error \in {"manual", "retry", "max"}
            /\ uploads[id].status # "absent" /\ C29_PermanentFailure(id)
                  => uploads'[id].status = "error" /\ uploads'[id].error = "manual"
       /\ \A id \in DownloadIds :
            /\ downloads'[id].status = "error" => downloads'[id].error \in {"manual", "plain", "max"}
            /\ downloads[id].status # "absent"
                 /\ (\E run \in RunsOf(downloadRuns) : run.id = id /\ chunkDownloadFailed(run, "permanent"))
                  => downloads'[id].status = "error" /\ downloads'[id].error = "manual"]_vars

C29_Witness ==
    /\ \E id \in UploadIds :
          uploads[id].status = "error" /\ uploads[id].error = "manual" /\ uploads[id].retryCount = 1

\* C30: before the retry that follows attempt k (0-based) fetchWithRetry
\* waits 1000 * 2^k + jitter milliseconds with 0 <= jitter < 250, no longer
\* than the maximum delay; when the response carries a numeric Retry-After
\* of r seconds, the wait slept is the larger of that backoff and r * 1000.
C30_BackoffDelay ==
    fetchCall.pc = "sleep"
       => LET backoff == Min2(1000 * Pow2(fetchCall.attempt) + delay.jitter, 15000)
          IN  /\ delay.jitter \in 0..249
              /\ delay.ms = IF delay.retryAfter >= 0
                            THEN Max2(backoff, delay.retryAfter * 1000)
                            ELSE backoff

\* C31: an attempt of fetchWithRetry that runs into its per-attempt timeout
\* while the external signal is not aborted is a retryable failure: the
\* backoff sleep follows, or after the last attempt the error is thrown; the
\* external signal is left alone and what is thrown is not the abort error
\* by which a cancellation is reported.
C31_TimeoutIsRetryable ==
    [][fetchCall.pc = "fetch" /\ fetchCall' # fetchCall /\ fetchCall'.last = Timeout
          /\ ~(signal.given /\ signal.aborted)
             => /\ signal' = signal
                /\ IF fetchCall.attempt < 4
                   THEN fetchCall'.pc = "sleep" /\ fetchCall'.attempt = fetchCall.attempt
                   ELSE fetchCall'.pc = "thrown" /\ fetchCall'.error # "AbortError"]_vars

\* the length the claim gives the delay after chunk i, without the jitter
C32_StepUp(i) == IF 800 + 50 * i < 2500 THEN 800 + 50 * i ELSE 2500

\* C32: in uploadFile with n chunks a delay is pending only after a chunk
\* i < n - 1 (never after the last chunk, never for a single-chunk file), it
\* lasts min(2500, 800 + 50 * i) + jitter milliseconds with 0 <= jitter < 300,
\* and the delay ends either with the request for chunk i + 1 or, when the
\* signal aborts, with the rejection of the upload: chunk i + 1 is then
\* never sent.
C32_InterChunkDelay ==
    /\ [](/\ storage.pc = "sleep"
             => /\ storage.i < Ceil(Len(storage.fileBuffer), ChunkBytes) - 1
                /\ \E jitter \in 0..299 : storage.wait = C32_StepUp(storage.i) + jitter
          /\ storage.pc # "sleep" => storage.wait = 0
          /\ \A i \in 0..40, jitter \in {0, 150, 299} :
                 InterChunkDelay(i, jitter) = C32_StepUp(i) + jitter)
    /\ [][/\ storage.pc = "send" /\ storage'.pc = "sleep"
                 => storage'.i = storage.i /\ Len(storage'.chunks) = storage.i + 1
          /\ storage.pc = "sleep" /\ storage' # storage
                 => \/ /\ storage'.pc = "send"
                       /\ storage'.sent = Append(storage.sent, storage.i + 1)
                    \/ /\ storage'.pc = "failed"
                       /\ storage'.error = "aborted"
                       /\ storage'.sent = storage.sent
          /\ storage.pc = "failed" => storage' = storage]_vars

\* the upload of a three-chunk buffer waits after chunk 1
C32_Witness ==
    /\ storage.pc = "sleep"
    /\ storage.i = 1
    /\ storage.wait = 850 + 299
    /\ Len(storage.fileBuffer) = 5

\* the upload was aborted in the delay after chunk 0 of three chunks
C32_AbortWitness ==
    /\ storage.pc = "failed"
    /\ storage.error = "aborted"
    /\ storage.sent = <<0>>
    /\ Len(storage.chunks) = 1

\* C33: cancelling is idempotent.  A cancelUpload (cancelDownload) leaves the
\* record cancelled, its id out of the active set and every other record as
\* it was; on a record that is already cancelled it changes nothing, so two
\* cancels leave the manager where one cancel left it.
C33_CancelIdempotent ==
    [][/\ \A id \in UploadIds :
            cancelUpload(id)
               => /\ uploads'[id].status = "cancelled"
                  /\ id \notin activeUploads'
                  /\ \A other \in UploadIds \ {id} : uploads'[other] = uploads[other]
                  /\ uploads[id].status = "cancelled" /\ uploads[id].aborted
                        => uploads' = uploads /\ activeUploads' = activeUploads \ {id}
       /\ \A id \in DownloadIds :
            cancelDownload(id)
               => /\ downloads'[id].status = "cancelled"
                  /\ id \notin activeDownloads'
                  /\ \A other \in DownloadIds \ {id} : downloads'[other] = downloads[other]
                  /\ downloads[id].status = "cancelled" /\ downloads[id].aborted
                        => downloads' = downloads /\ activeDownloads' = activeDownloads \ {id}]_vars

\* the timeout armed by the last debouncedProcessQueue call is no longer pending
C34_BurstOver == debounce.lastCall # -1 /\ debounce.timer = -1

\* no record occurs twice among the records a pass started
C34_StartsOnce ==
    \A a, b \in 1..Len(debounce.starts) : debounce.starts[a] = debounce.starts[b] => a = b

C35_Decided == route.pc \in {"backend", "answered"}

\* C35: the client never sends a chunk of more than 5 MiB; the chunk route
\* answers a request with a missing field or with a chunk of more than 5 MiB
\* with status 400 and calls the backend for none of them; it hands every
\* other request, a chunk of exactly 5 MiB included, to the backend.
C35_ChunkSizeEnforced ==
    /\ route.sender = "client"
          => route.req.bytes >= 1 /\ route.req.bytes <= 5 * 1024 * 1024
    /\ C35_Decided /\ (route.req.fields # RouteFields \/ route.req.bytes > 5 * 1024 * 1024)
          => route.pc = "answered" /\ route.status = 400 /\ route.calls = 0
    /\ C35_Decided /\ route.req.fields = RouteFields /\ route.req.bytes <= 5 * 1024 * 1024
          => route.calls = 1 /\ route.status # 400

\* a chunk of exactly 5 MiB sent by the client has been stored
C35_Witness ==
    /\ route.sender = "client"
    /\ route.req.bytes = 5 * 1024 * 1024
    /\ route.pc = "answered"
    /\ route.status = 200

\* a chunk of one byte more was refused without a call of the backend
C35_RefusedWitness ==
    /\ route.req.fields = RouteFields
    /\ route.req.bytes = 5 * 1024 * 1024 + 1
    /\ route.status = 400
    /\ route.calls = 0

\* the processUpload runs of record id that have not returned
C36_RunsOfRecord(id) == {run \in RunsOf(uploadRuns) : run.id = id}

\* C36: for every upload id at most one processUpload run is in flight at
\* any time: no run of a record starts while an earlier run of the record
\* has not returned.
C36_OneRunPerRecord ==
    \A id \in UploadIds :
        /\ Cardinality(C36_RunsOfRecord(id)) <= 1
        /\ \A run \in C36_RunsOfRecord(id) : CopiesIn(run, uploadRuns) = 1

\* the ids that have a processUpload (processDownload) run in flight
C37_RunningUploads == {run.id : run \in RunsOf(uploadRuns)}

C37_RunningDownloads == {run.id : run \in RunsOf(downloadRuns)}

\* C37: the active-id set always equals the set of the ids that have a run
\* in flight, and never more than 3 runs are in flight.
C37_ActiveIsRunning ==
    /\ activeUploads = C37_RunningUploads
    /\ BagCardinality(uploadRuns) <= 3
    /\ activeDownloads = C37_RunningDownloads
    /\ BagCardinality(downloadRuns) <= 3

\* C38: in every reachable state a record with status pending has a
\* retryCount below 6 (2 * RETRY_ATTEMPTS): no sequence of failures, pauses,
\* resumes and retries brings a record that has reached the retry ceiling
\* back into pending.
C38_PendingBelowCeiling ==
    \A id \in UploadIds : uploads[id].status = "pending" => uploads[id].retryCount < 6

\* the files contained in folder f and in all the folders below it
C39_FilesBelow(f) == UNION {FilesOf(tables, g) : g \in Subtree(tables, f)}

\* C39: starting from empty tables, after any sequence of createFile,
\* moveFile, copyFile, deleteFile, moveFolder, copyFolder and deleteFolder
\* the cached totalSize and fileCount of every existing folder equal the
\* total size and the number of the files in the folder and in all its
\* subfolders.
C39_FolderTotalsExact ==
    \A f \in FolderIds :
        tables.folders[f].exists
           => /\ tables.folders[f].totalSize = SumOfSizes(tables, C39_FilesBelow(f))
              /\ tables.folders[f].fileCount = Cardinality(C39_FilesBelow(f))

====
